---- MODULE Spec2Model ----
(***************************************************************************)
(* A model of the dnsfilter rule engine of DnsLibs: rule parsing           *)
(* (rule_utils.cpp), the five-table rule index, load under a memory        *)
(* budget, match, and update (filter.cpp), reading rule lines by byte      *)
(* offset (file.cpp); and of the forwarder of the DNS proxy               *)
(* (dns_forwarder.h): the handling of a message from the retransmission    *)
(* detector over the response cache, the question filter and the exchange  *)
(* with the upstreams and the fallbacks to the processed event.            *)
(*                                                                         *)
(* Strings are TLA+ strings; positions are 1-based, and 0 stands for       *)
(* std::string::npos.  A byte offset of the source is 0-based, as in the   *)
(* code.                                                                   *)
(***************************************************************************)
EXTENDS Integers, Sequences, FiniteSets, TLC

(***************************************************************************)
(* Characters.                                                             *)
(***************************************************************************)
Ch(s, i) == SubSeq(s, i, i)

\* the printable ASCII characters from code 32 to 95 and from 97 to 126
PrintableLow == " !\"#$%&'()*+,-./0123456789:;<=>?@ABCDEFGHIJKLMNOPQRSTUVWXYZ[\\]^_"
PrintableHigh == "abcdefghijklmnopqrstuvwxyz{|}~"

\* the character code of a one-character string (ASCII)
CharCode ==
  [c \in {Ch(PrintableLow, i) : i \in 1..Len(PrintableLow)}
         \cup {Ch(PrintableHigh, i) : i \in 1..Len(PrintableHigh)}
         \cup {"\n", "\r", "\t"} |->
     CASE c = "\t" -> 9
       [] c = "\n" -> 10
       [] c = "\r" -> 13
       [] \E i \in 1..Len(PrintableLow) : Ch(PrintableLow, i) = c ->
            31 + (CHOOSE i \in 1..Len(PrintableLow) : Ch(PrintableLow, i) = c)
       [] OTHER ->
            96 + (CHOOSE i \in 1..Len(PrintableHigh) : Ch(PrintableHigh, i) = c)]

Code(c) == CharCode[c]

IsDigit(c) == Code(c) >= 48 /\ Code(c) <= 57
IsUpper(c) == Code(c) >= 65 /\ Code(c) <= 90
IsLower(c) == Code(c) >= 97 /\ Code(c) <= 122
IsAlpha(c) == IsUpper(c) \/ IsLower(c)
IsXDigit(c) == IsDigit(c) \/ (Code(c) >= 65 /\ Code(c) <= 70) \/ (Code(c) >= 97 /\ Code(c) <= 102)
IsSpace(c) == c \in {" ", "\t", "\n", "\r"}

AllChars(s, P(_)) == \A i \in 1..Len(s) : P(Ch(s, i))

(***************************************************************************)
(* ag::utils string helpers (ag_utils.h): the usual meaning of each.       *)
(***************************************************************************)
starts_with(s, p) == Len(p) <= Len(s) /\ SubSeq(s, 1, Len(p)) = p
ends_with(s, p) == Len(p) <= Len(s) /\ SubSeq(s, Len(s) - Len(p) + 1, Len(s)) = p

\* the least member of a set of positions, 0 for the empty set
FirstOf(S) == IF S = {} THEN 0 ELSE CHOOSE x \in S : \A y \in S : x <= y

\* the greatest member of a set of positions, 0 for the empty set
LastOf(S) == IF S = {} THEN 0 ELSE CHOOSE x \in S : \A y \in S : x >= y

\* std::string_view::find(sub, from): the first position >= from where sub
\* starts, 0 when there is none
FindFrom(s, sub, from) ==
  FirstOf({i \in from..(Len(s) - Len(sub) + 1) : SubSeq(s, i, i + Len(sub) - 1) = sub})

Find(s, sub) == FindFrom(s, sub, 1)

RFindFrom(s, c, i) == LastOf({j \in 1..i : Ch(s, j) = c})

\* std::string_view::rfind(c)
RFind(s, c) == RFindFrom(s, c, Len(s))

CountChar(s, c) == Cardinality({i \in 1..Len(s) : Ch(s, i) = c})

\* s from position p on; "" when p is 0
SuffixFrom(s, p) == IF p = 0 THEN "" ELSE SubSeq(s, p, Len(s))

ltrim(s) == SuffixFrom(s, FirstOf({i \in 1..Len(s) : ~IsSpace(Ch(s, i))}))

rtrim(s) == SubSeq(s, 1, LastOf({i \in 1..Len(s) : ~IsSpace(Ch(s, i))}))

trim(s) == ltrim(rtrim(s))

LowerChar(c) == IF IsUpper(c) THEN Ch(PrintableHigh, Code(c) - 64) ELSE c

RECURSIVE LowerRange(_, _, _)
\* s[lo..hi] in lower case, by halves
LowerRange(s, lo, hi) ==
  IF lo > hi THEN ""
  ELSE IF lo = hi THEN LowerChar(Ch(s, lo))
  ELSE LowerRange(s, lo, (lo + hi) \div 2) \o LowerRange(s, ((lo + hi) \div 2) + 1, hi)

to_lower(s) == LowerRange(s, 1, Len(s))

\* out with the trimmed piece appended unless it is empty
SplitPut(out, piece) == IF piece = "" THEN out ELSE Append(out, piece)

\* the end of the piece that starts at from, given the next delimiter (0: none)
SplitEnd(s, next) == IF next = 0 THEN Len(s) + 1 ELSE next

RECURSIVE SplitFrom(_, _, _, _)
SplitPiece(s, delims, from, out, end) ==
  SplitFrom(s, delims, end + 1, SplitPut(out, trim(SubSeq(s, from, end - 1))))

\* the non-empty pieces of s between characters of delims, each trimmed
SplitFrom(s, delims, from, out) ==
  IF from > Len(s) THEN out
  ELSE SplitPiece(s, delims, from, out,
                  SplitEnd(s, FirstOf({i \in from..Len(s) : Ch(s, i) \in delims})))

split_by(s, delim) == SplitFrom(s, {delim}, 1, <<>>)
split_by_any_of(s, delims) == SplitFrom(s, delims, 1, <<>>)

\* split at the first delim: <<before, after>>, <<s, "">> when there is none
split2_by(s, delim) ==
  LET p == Find(s, delim) IN
  IF p = 0 THEN <<s, "">>
  ELSE <<trim(SubSeq(s, 1, p - 1)), trim(SubSeq(s, p + 1, Len(s)))>>

\* split at the last delim: <<before, after>>, <<s, "">> when there is none
rsplit2_by(s, delim) ==
  LET p == RFind(s, delim) IN
  IF p = 0 THEN <<s, "">>
  ELSE <<trim(SubSeq(s, 1, p - 1)), trim(SubSeq(s, p + 1, Len(s)))>>

(***************************************************************************)
(* ag::utils::hash: a 32-bit string hash, h := h * 33 xor c from 5381.     *)
(* A hash is kept as <<high 16 bits, low 16 bits>>.                        *)
(***************************************************************************)
RECURSIVE XorBits(_, _, _)
XorBits(a, b, n) ==
  IF n = 0 THEN 0
  ELSE (((a % 2) + (b % 2)) % 2) + 2 * XorBits(a \div 2, b \div 2, n - 1)

HashStep(h, c) ==
  LET lo33 == h[2] * 33
      hi == ((h[1] * 33) + (lo33 \div 65536)) % 65536
      lo == lo33 % 65536
  IN <<hi, (lo - (lo % 128)) + XorBits(lo % 128, Code(c), 7)>>

RECURSIVE HashRange(_, _, _, _)
\* the hash h continued over s[lo..hi]; the test of h makes h a value before
\* the range is entered, so that the evaluation nests by halves and not by
\* characters
HashRange(h, s, lo, hi) ==
  IF lo > hi \/ h[1] < 0 THEN h
  ELSE IF lo = hi THEN HashStep(h, Ch(s, lo))
  ELSE HashRange(HashRange(h, s, lo, (lo + hi) \div 2), s, ((lo + hi) \div 2) + 1, hi)

hash(s) == HashRange(<<0, 5381>>, s, 1, Len(s))

(***************************************************************************)
(* ag::regex (ag_regex.h): search of a string for a match of a regular     *)
(* expression.  The syntax covered: literal characters, escaped            *)
(* characters, ".", "^", "$", groups, and the quantifiers "*", "?", "+".   *)
(* A position p of s stands for "the next character to read is s[p]".      *)
(***************************************************************************)
Quantifiers == {"*", "?", "+"}

RECURSIVE CloseParen(_, _, _)
\* the position of the ")" that closes a group whose body starts at i; 0 if none
CloseParen(re, i, depth) ==
  IF i > Len(re) THEN 0
  ELSE IF Ch(re, i) = "\\" THEN CloseParen(re, i + 2, depth)
  ELSE IF Ch(re, i) = "(" THEN CloseParen(re, i + 1, depth + 1)
  ELSE IF Ch(re, i) = ")"
       THEN IF depth = 0 THEN i ELSE CloseParen(re, i + 1, depth - 1)
  ELSE CloseParen(re, i + 1, depth)

\* the last position of the atom that starts at i
AtomEnd(re, i) ==
  IF Ch(re, i) = "(" THEN CloseParen(re, i + 1, 0)
  ELSE IF Ch(re, i) = "\\" THEN i + 1
  ELSE i

RECURSIVE regex_is_valid_from(_, _, _)
\* every group is closed, every quantifier follows an atom, no escape is cut
regex_is_valid_from(re, i, j) ==
  IF i > j THEN TRUE
  ELSE IF Ch(re, i) \in Quantifiers \cup {")"} THEN FALSE
  ELSE LET e == AtomEnd(re, i)
           n == IF e < j /\ Ch(re, e + 1) \in Quantifiers THEN e + 2 ELSE e + 1
       IN /\ e # 0
          /\ e <= j
          /\ Ch(re, i) = "(" => regex_is_valid_from(re, i + 1, e - 1)
          /\ regex_is_valid_from(re, n, j)

regex_is_valid(re) == regex_is_valid_from(re, 1, Len(re))

RECURSIVE ReSeq(_, _, _, _, _), ReStar(_, _, _, _, _), ReAtom(_, _, _, _, _)
\* the positions reached from a position of P by one match of the atom re[i..e]
ReAtom(re, i, e, s, P) ==
  LET c == Ch(re, i) IN
  IF c = "(" THEN ReSeq(re, i + 1, e - 1, s, P)
  ELSE IF c = "\\" THEN {p + 1 : p \in {q \in P : q <= Len(s) /\ Ch(s, q) = Ch(re, i + 1)}}
  ELSE IF c = "." THEN {p + 1 : p \in {q \in P : q <= Len(s)}}
  ELSE IF c = "^" THEN P \cap {1}
  ELSE IF c = "$" THEN P \cap {Len(s) + 1}
  ELSE {p + 1 : p \in {q \in P : q <= Len(s) /\ Ch(s, q) = c}}

\* ... by any number of matches of the atom
ReStar(re, i, e, s, P) ==
  LET Q == P \cup ReAtom(re, i, e, s, P) IN
  IF Q = P THEN P ELSE ReStar(re, i, e, s, Q)

\* ... by a match of re[i..j]
ReSeq(re, i, j, s, P) ==
  IF i > j \/ P = {} THEN P
  ELSE LET e == AtomEnd(re, i)
           q == IF e < j THEN Ch(re, e + 1) ELSE ""
       IN IF q = "*" THEN ReSeq(re, e + 2, j, s, ReStar(re, i, e, s, P))
          ELSE IF q = "?" THEN ReSeq(re, e + 2, j, s, P \cup ReAtom(re, i, e, s, P))
          ELSE IF q = "+"
               THEN ReSeq(re, e + 2, j, s, ReStar(re, i, e, s, ReAtom(re, i, e, s, P)))
          ELSE ReSeq(re, e + 1, j, s, ReAtom(re, i, e, s, P))

\* ag::regex::match: some substring of s matches re
regex_match(re, s) == ReSeq(re, 1, Len(re), s, 1..(Len(s) + 1)) # {}

\* the last position in lo..hi of s that holds c; 0 if none
LastIn(s, c, lo, hi) == LastOf({i \in lo..hi : Ch(s, i) = c})

RECURSIVE ReplaceBrackets(_, _, _)
\* ag::regex("([^\\]*)<open>[^\\]*<close>").replace(text, "$1..."): in each
\* backslash-free stretch, the text from the last opening bracket that has a
\* closing one after it up to the last closing bracket becomes "..."
ReplaceBrackets(text, open, close) ==
  IF text = "" THEN ""
  ELSE LET b == Find(text, "\\")
           t == IF b = 0 THEN Len(text) ELSE b - 1
           j == LastIn(text, close, 1, t)
           i == IF j = 0 THEN 0 ELSE LastIn(text, open, 1, j - 1)
       IN IF i = 0
          THEN IF b = 0 THEN text
               ELSE SubSeq(text, 1, b)
                    \o ReplaceBrackets(SubSeq(text, b + 1, Len(text)), open, close)
          ELSE SubSeq(text, 1, i - 1) \o "..."
               \o ReplaceBrackets(SubSeq(text, j + 1, Len(text)), open, close)

RECURSIVE ReplaceLiteral(_, _)
\* ag::regex("([^\\]*)\[a-zA-Z]").replace(text, "$1..."): the pattern's "\["
\* is an escaped bracket, so it matches the literal text "[a-zA-Z]"
ReplaceLiteral(text, lit) ==
  LET p == Find(text, lit) IN
  IF p = 0 THEN text
  ELSE SubSeq(text, 1, p - 1) \o "..."
       \o ReplaceLiteral(SubSeq(text, p + Len(lit), Len(text)), lit)

\* the four SHORTCUT_REGEXES applied in order
strip_shortcut_regexes(text) ==
  ReplaceLiteral(
    ReplaceBrackets(ReplaceBrackets(ReplaceBrackets(text, "(", ")"), "{", "}"), "[", "]"),
    "[a-zA-Z]")

(***************************************************************************)
(* Rule parsing (rule_utils.cpp).                                          *)
(***************************************************************************)
NoRule == [none |-> TRUE]
NoValue == [absent |-> TRUE]

MODIFIERS_MARKER == "$"
MODIFIERS_DELIMITER == ","
EXCEPTION_MARKER == "@@"
SKIPPABLE_PREFIXES ==
  <<"https://", "http://", "http*://", "ws://", "wss://", "ws*://", "://", "//">>
SPECIAL_SUFFIXES == <<"|", "^", "/">>
SPECIAL_REGEX_CHARACTERS == {"\\", "^", "$", "*", "+", "?", ".", "(", ")", "|", "[", "]", "{", "}"}
\* { name, id, takes parameters }
SUPPORTED_MODIFIERS ==
  << [name |-> "important", id |-> "IMPORTANT", params |-> FALSE],
     [name |-> "badfilter", id |-> "BADFILTER", params |-> FALSE],
     [name |-> "dnstype", id |-> "DNSTYPE", params |-> TRUE],
     [name |-> "dnsrewrite", id |-> "DNSREWRITE", params |-> TRUE] >>

MAX_DOMAIN_LENGTH == 255
MAX_LABEL_LENGTH == 63
MAX_IPADDR_LENTH == 45

\* rule_utils::is_comment (rule_utils.h)
is_comment(str) == str = "" \/ Head(str) \in {"!", "#"}

pattern_exact(pattern_mode) == pattern_mode = {"LINE_START", "LINE_END"}
pattern_subdomains(pattern_mode) == pattern_mode = {"DOMAIN_START", "LINE_END"}

RECURSIVE LabelsOk(_, _)
\* no run of characters other than "." is longer than MAX_LABEL_LENGTH
LabelsOk(domain, run) ==
  IF run > MAX_LABEL_LENGTH THEN FALSE
  ELSE IF domain = "" THEN TRUE
  ELSE LabelsOk(Tail(domain), IF Head(domain) = "." THEN 0 ELSE run + 1)

check_domain_pattern_labels(domain) == LabelsOk(domain, 0)

DomainChar(c) == IsAlpha(c) \/ IsDigit(c) \/ c \in {".", "-", "*", "_"}
check_domain_pattern_charset(domain) == AllChars(domain, DomainChar)

is_valid_domain_pattern(domain) ==
  /\ Len(domain) <= MAX_DOMAIN_LENGTH
  /\ check_domain_pattern_charset(domain)
  /\ check_domain_pattern_labels(domain)

IpPatternChar(c) == IsXDigit(c) \/ c \in {".", ":", "[", "]", "*"}
is_valid_ip_pattern(str) ==
  str # "" /\ Len(str) <= MAX_IPADDR_LENTH /\ AllChars(str, IpPatternChar)

RECURSIVE DecimalValue(_, _)
DecimalValue(s, acc) ==
  IF s = "" THEN acc ELSE DecimalValue(Tail(s), (acc * 10) + (Code(Head(s)) - 48))

\* ag::utils::is_valid_ip4: four decimal numbers 0..255 separated by dots
is_valid_ip4(str) ==
  LET parts == split_by(str, ".") IN
  /\ str # "" /\ AllChars(str, LAMBDA c : IsDigit(c) \/ c = ".")
  /\ CountChar(str, ".") = 3 /\ Len(parts) = 4
  /\ \A i \in 1..4 : Len(parts[i]) <= 3 /\ DecimalValue(parts[i], 0) <= 255

\* ag::utils::is_valid_ip6: groups of hexadecimal digits separated by colons
is_valid_ip6(str) ==
  /\ CountChar(str, ":") >= 2 /\ CountChar(str, ":") <= 7
  /\ AllChars(str, LAMBDA c : IsXDigit(c) \/ c = ":")
  /\ \A i \in 1..Len(split_by(str, ":")) : Len(split_by(str, ":")[i]) <= 4
  /\ (CountChar(str, ":") = 7 \/ Find(str, "::") # 0)
  /\ Find(str, ":::") = 0

\* ag::socket_address{str, 0}.valid(): str is an IP address literal
socket_address_valid(str) == is_valid_ip4(str) \/ is_valid_ip6(str)

\* ag::utils::str_to_socket_address(str).valid(): an address, maybe with a port
is_ip(str) ==
  \/ socket_address_valid(str)
  \/ /\ CountChar(str, ":") = 1
     /\ is_valid_ip4(split2_by(str, ":")[1])
     /\ split2_by(str, ":")[2] # "" /\ AllChars(split2_by(str, ":")[2], IsDigit)

is_domain_name(str) ==
  /\ str # ""
  /\ ~is_ip(str)
  /\ Ch(str, Len(str)) # "."
  /\ Head(str) # "."
  /\ is_valid_domain_pattern(str)
  /\ Find(str, "*") = 0

\* the DNS record types the model knows: ldns_get_rr_type_by_name gives 0 for
\* any other name
RR_TYPE_NAMES == {"A", "AAAA", "MX", "PTR", "CNAME", "TXT"}
ldns_get_rr_type_by_name(t) ==
  IF \E n \in RR_TYPE_NAMES : to_lower(n) = to_lower(t)
  THEN CHOOSE n \in RR_TYPE_NAMES : to_lower(n) = to_lower(t)
  ELSE "0"

check_regex(str) == Len(str) > 1 /\ Head(str) = "/" /\ Ch(str, Len(str)) = "/"

RECURSIVE remove_skippable_prefixes_from(_, _)
\* [text, mode] after the first of SKIPPABLE_PREFIXES the rule starts with is cut
remove_skippable_prefixes_from(rule, k) ==
  IF k > Len(SKIPPABLE_PREFIXES) THEN [text |-> rule, mode |-> {}]
  ELSE IF starts_with(rule, SKIPPABLE_PREFIXES[k])
       THEN [text |-> SubSeq(rule, Len(SKIPPABLE_PREFIXES[k]) + 1, Len(rule)),
             mode |-> {"DOMAIN_START"}]
  ELSE remove_skippable_prefixes_from(rule, k + 1)

remove_skippable_prefixes(rule) == remove_skippable_prefixes_from(rule, 1)

remove_special_prefixes(rule) ==
  IF starts_with(rule, "||")
  THEN [text |-> SubSeq(rule, 3, Len(rule)), mode |-> {"DOMAIN_START"}]
  ELSE IF starts_with(rule, "|")
  THEN [text |-> SubSeq(rule, 2, Len(rule)), mode |-> {"LINE_START"}]
  ELSE [text |-> rule, mode |-> {}]

RECURSIVE remove_special_suffixes_from(_, _, _)
\* while the rule ends with a suffix still in the list, cut it and drop it
\* from the list
remove_special_suffixes_from(rule, suffixes_to_remove, r) ==
  LET hits == {k \in 1..Len(suffixes_to_remove) : ends_with(rule, suffixes_to_remove[k])} IN
  IF hits = {} THEN [text |-> rule, mode |-> r]
  ELSE LET k == CHOOSE x \in hits : \A y \in hits : x <= y IN
       remove_special_suffixes_from(
         SubSeq(rule, 1, Len(rule) - Len(suffixes_to_remove[k])),
         SubSeq(suffixes_to_remove, 1, k - 1)
           \o SubSeq(suffixes_to_remove, k + 1, Len(suffixes_to_remove)),
         {"LINE_END"})

remove_special_suffixes(rule) == remove_special_suffixes_from(rule, SPECIAL_SUFFIXES, {})

is_valid_port(p) == Len(p) <= 5 /\ AllChars(p, IsDigit)

remove_port(rule) ==
  LET rpos == RFind(rule, ":")
      fpos == Find(rule, ":")
  IN IF rpos = 0 THEN [text |-> rule, mode |-> {}]
     ELSE IF fpos = rpos /\ fpos # Len(rule)
             /\ is_valid_port(SubSeq(rule, fpos + 1, Len(rule)))
     THEN [text |-> SubSeq(rule, 1, fpos - 1), mode |-> {"LINE_END"}]
     ELSE IF fpos > 1 /\ Ch(rule, fpos - 1) = "]" /\ Head(rule) = "["
     \* rule.substr(1, rpos - 2), rpos counted from 0
     THEN [text |-> SubSeq(rule, 2, rpos - 2), mode |-> {"LINE_START", "LINE_END"}]
     ELSE [text |-> rule, mode |-> {}]

\* the end of extract_match_info: a and b are what remove_special_prefixes and
\* remove_skippable_prefixes gave, c and d what remove_special_suffixes and
\* remove_port gave
match_info_of(mode, c, d) ==
  [text |-> d.text, is_regex_rule |-> FALSE, has_wildcard |-> Find(d.text, "*") # 0,
   pattern_mode |->
     (IF "DOMAIN_START" \in mode /\ "LINE_START" \in mode
      THEN mode \ {"DOMAIN_START"} ELSE mode) \cup c.mode \cup d.mode]

match_info_suffixes(mode, c) == match_info_of(mode, c, remove_port(c.text))

match_info_prefixes(a, b) ==
  match_info_suffixes(a.mode \cup b.mode, remove_special_suffixes(b.text))

match_info_pattern(a) == match_info_prefixes(a, remove_skippable_prefixes(a.text))

extract_match_info(rule) ==
  IF check_regex(rule)
  THEN [text |-> SubSeq(rule, 2, Len(rule) - 1), is_regex_rule |-> TRUE,
        has_wildcard |-> FALSE, pattern_mode |-> {}]
  ELSE match_info_pattern(remove_special_prefixes(rule))

is_host_rule(str) ==
  LET parts == split_by_any_of(str, {" ", "\t"}) IN
  Len(parts) > 1 /\ (is_valid_ip4(parts[1]) \/ is_valid_ip6(parts[1]))

\* a rule as rule_utils::rule: the public part (text, content, props, the
\* hosts rule's ip, the dnsrewrite parameters) and the match information
MakeRule(text, content, props, ip, match_method, matching_parts, dnstype, dnsrewrite) ==
  [text |-> text, content |-> content, props |-> props, ip |-> ip,
   match_method |-> match_method, matching_parts |-> matching_parts,
   dnstype |-> dnstype, dnsrewrite |-> dnsrewrite]

RECURSIVE host_rule_parts(_, _, _)
\* the lowercased domains of a hosts line, none if one is not a valid pattern:
\* the line is no rule then, as when it names no domain
host_rule_parts(parts, i, out) ==
  IF i > Len(parts) THEN out
  ELSE IF parts[i] = "" THEN host_rule_parts(parts, i + 1, out)
  ELSE IF ~is_valid_domain_pattern(parts[i]) /\ Find(parts[i], "*") = 0 THEN <<>>
  ELSE host_rule_parts(parts, i + 1, Append(out, to_lower(parts[i])))

\* the end of parse_host_file_rule, for the line without its comment
host_rule_of(str, parts, matching_parts) ==
  IF Len(parts) < 2 THEN NoRule
  ELSE IF ~is_valid_ip4(parts[1]) /\ ~is_valid_ip6(parts[1]) THEN NoRule
  ELSE IF matching_parts = <<>> THEN NoRule
  ELSE MakeRule(str, "hosts", {}, parts[1], "SUBDOMAINS", matching_parts,
                NoValue, NoValue)

host_rule_parse(str, parts) == host_rule_of(str, parts, host_rule_parts(parts, 2, <<>>))

host_rule_split(str) == host_rule_parse(str, split_by_any_of(str, {" ", "\t"}))

host_rule_comment(line, cut) ==
  host_rule_split(rtrim(IF cut = 0 THEN line ELSE SubSeq(line, 1, cut - 1)))

parse_host_file_rule(line) == host_rule_comment(line, Find(line, "#"))

RECURSIVE dnstype_types(_, _, _, _)
\* the loop of parse_dnstype_modifier over the types: [enabled, excluded], or
\* NoValue when it returns false
dnstype_types(types, i, enabled_types, excluded_types) ==
  IF i > Len(types) THEN [enabled |-> enabled_types, excluded |-> excluded_types]
  ELSE LET enabled == Head(types[i]) # "~"
           t == IF enabled THEN types[i] ELSE Tail(types[i])
           type == ldns_get_rr_type_by_name(t)
           list_to_check == IF enabled THEN excluded_types ELSE enabled_types
           list_to_insert == IF enabled THEN enabled_types ELSE excluded_types
       IN IF type = "0" THEN NoValue
          ELSE IF \E k \in 1..Len(list_to_check) : list_to_check[k] = type THEN NoValue
          \* std::unique finds a repetition only next to the new element
          ELSE IF list_to_insert # <<>> /\ list_to_insert[Len(list_to_insert)] = type
               THEN NoValue
          ELSE IF enabled
               THEN dnstype_types(types, i + 1, Append(enabled_types, type), excluded_types)
               ELSE dnstype_types(types, i + 1, enabled_types, Append(excluded_types, type))

\* parse_dnstype_modifier without the refusal of a blocking rule that names
\* no type
parse_dnstype_modifier_untyped(props, params_str) ==
  LET types == split_by(params_str, "|") IN
  IF types = <<>> /\ params_str # "" THEN NoValue
  ELSE LET lists == dnstype_types(types, 1, <<>>, <<>>) IN
       IF lists = NoValue THEN NoValue
       ELSE IF lists.enabled # <<>>
            THEN [types |-> lists.enabled, mode |-> "ENABLE"]
            ELSE [types |-> lists.excluded, mode |-> "EXCLUDE"]

\* the rule's dnstype_info, NoValue when the modifier is refused
parse_dnstype_modifier(props, params_str) ==
  IF params_str = "" /\ "EXCEPTION" \notin props THEN NoValue
  ELSE LET types == split_by(params_str, "|") IN
       IF types = <<>> /\ params_str # "" THEN NoValue
       ELSE LET lists == dnstype_types(types, 1, <<>>, <<>>) IN
            IF lists = NoValue THEN NoValue
            ELSE IF lists.enabled # <<>>
                 THEN [types |-> lists.enabled, mode |-> "ENABLE"]
                 ELSE [types |-> lists.excluded, mode |-> "EXCLUDE"]

RCODE_NAMES == {"NOERROR", "NXDOMAIN", "REFUSED", "SERVFAIL"}

\* rule_utils::parse_dnsrewrite_modifier: the argument is `value` or
\* `RCODE;RRTYPE;value`; the result is the rule's dnsrewrite_info, NoValue
\* when the modifier is refused
parse_dnsrewrite_modifier(params_str) ==
  LET parts == split_by(params_str, ";") IN
  IF Len(parts) = 1 /\ CountChar(params_str, ";") = 0
  THEN IF parts[1] \in RCODE_NAMES
       THEN [rcode |-> parts[1], rrtype |-> "0", value |-> ""]
       ELSE IF is_valid_ip4(parts[1])
       THEN [rcode |-> "NOERROR", rrtype |-> "A", value |-> parts[1]]
       ELSE IF is_valid_ip6(parts[1])
       THEN [rcode |-> "NOERROR", rrtype |-> "AAAA", value |-> parts[1]]
       ELSE IF is_valid_domain_pattern(parts[1])
       THEN [rcode |-> "NOERROR", rrtype |-> "CNAME", value |-> parts[1]]
       ELSE NoValue
  ELSE IF Len(parts) = 3 /\ CountChar(params_str, ";") = 2
          /\ parts[1] \in RCODE_NAMES /\ ldns_get_rr_type_by_name(parts[2]) # "0"
  THEN [rcode |-> parts[1], rrtype |-> ldns_get_rr_type_by_name(parts[2]),
        value |-> parts[3]]
  ELSE NoValue

\* what extract_modifiers stores for a modifier with parameters: d is the
\* parsed dnstype or dnsrewrite
modifier_with_params(id, r, d) ==
  IF d = NoValue THEN NoValue
  ELSE IF id = "DNSTYPE" THEN [id |-> id, dnstype |-> d, dnsrewrite |-> r.dnsrewrite]
  ELSE [id |-> id, dnstype |-> r.dnstype, dnsrewrite |-> d]

RECURSIVE find_modifier(_, _, _)
\* the inner loop of extract_modifiers over SUPPORTED_MODIFIERS for one
\* modifier: [id, dnstype, dnsrewrite] of the descriptor found, NoValue when
\* the function returns false or finds none
find_modifier(modifier, k, r) ==
  IF k > Len(SUPPORTED_MODIFIERS) THEN NoValue
  ELSE IF ~starts_with(modifier, SUPPORTED_MODIFIERS[k].name)
  THEN find_modifier(modifier, k + 1, r)
  ELSE IF Len(modifier) > Len(SUPPORTED_MODIFIERS[k].name)
          /\ Ch(modifier, Len(SUPPORTED_MODIFIERS[k].name) + 1) # "="
  THEN find_modifier(modifier, k + 1, r)
  ELSE IF Len(modifier) > Len(SUPPORTED_MODIFIERS[k].name) /\ ~SUPPORTED_MODIFIERS[k].params
  THEN NoValue
  ELSE IF ~SUPPORTED_MODIFIERS[k].params
  THEN [id |-> SUPPORTED_MODIFIERS[k].id, dnstype |-> r.dnstype, dnsrewrite |-> r.dnsrewrite]
  ELSE IF Len(modifier) = Len(SUPPORTED_MODIFIERS[k].name) + 1 THEN NoValue
  ELSE modifier_with_params(
         SUPPORTED_MODIFIERS[k].id, r,
         IF SUPPORTED_MODIFIERS[k].id = "DNSTYPE"
         THEN parse_dnstype_modifier(
                r.props, SubSeq(modifier, Len(SUPPORTED_MODIFIERS[k].name) + 2, Len(modifier)))
         ELSE parse_dnsrewrite_modifier(
                SubSeq(modifier, Len(SUPPORTED_MODIFIERS[k].name) + 2, Len(modifier))))

RECURSIVE extract_modifiers_from(_, _, _)
\* the outer loop of extract_modifiers, and what it does with the
\* descriptor found for modifier i
modifier_found(modifiers, i, r, found) ==
  IF found = NoValue THEN NoValue
  ELSE IF found.id \in r.props THEN NoValue
  ELSE extract_modifiers_from(modifiers, i + 1,
         [props |-> r.props \cup {found.id}, dnstype |-> found.dnstype,
          dnsrewrite |-> found.dnsrewrite])

extract_modifiers_from(modifiers, i, r) ==
  IF i > Len(modifiers) THEN r
  ELSE modifier_found(modifiers, i, r, find_modifier(modifiers[i], 1, r))

\* [props, dnstype, dnsrewrite] of the rule after its modifiers are read,
\* NoValue when extract_modifiers returns false
extract_modifiers(props, modifiers_str) ==
  extract_modifiers_from(split_by(modifiers_str, MODIFIERS_DELIMITER), 1,
                         [props |-> props, dnstype |-> NoValue, dnsrewrite |-> NoValue])

make_exact_domain_name_rule(name) ==
  MakeRule(name, "adblock", {}, "", "EXACT", <<to_lower(name)>>, NoValue, NoValue)

SPEC_SEQS ==
  {"\\n", "\\r", "\\t", "\\d", "\\D", "\\w", "\\W", "\\s", "\\S",
   "\\b", "\\B", "\\<", "\\>", "\\A", "\\Z"}

skip_special_chars(str) ==
  IF str = "" THEN str
  ELSE IF Len(str) >= 2 /\ SubSeq(str, 1, 2) \in SPEC_SEQS THEN SubSeq(str, 3, Len(str))
  ELSE Tail(str)

find_first_of(s, chars, i) == FirstOf({j \in i..Len(s) : Ch(s, j) \in chars})

RECURSIVE extract_regex_shortcuts_from(_, _)
extract_regex_shortcuts_from(text, shortcuts) ==
  IF text = "" THEN shortcuts
  ELSE LET seek == find_first_of(text, SPECIAL_REGEX_CHARACTERS, 1) IN
       IF seek = 0 THEN Append(shortcuts, text)
       ELSE extract_regex_shortcuts_from(
              skip_special_chars(SubSeq(text, seek, Len(text))),
              IF seek > 1 THEN Append(shortcuts, SubSeq(text, 1, seek - 1)) ELSE shortcuts)

extract_regex_shortcuts(text) == extract_regex_shortcuts_from(text, <<>>)

is_too_wide_rule(props, text) ==
  /\ "DNSTYPE" \notin props
  /\ "DNSREWRITE" \notin props
  /\ (Len(text) < 3 \/ AllChars(text, LAMBDA c : c \in {".", "*"}))

EscapeChar(c) == IF c = "*" THEN ".*" ELSE IF c = "." THEN "\\." ELSE c

RECURSIVE EscapeRange(_, _, _)
EscapeRange(re, lo, hi) ==
  IF lo > hi THEN ""
  ELSE IF lo = hi THEN EscapeChar(Ch(re, lo))
  ELSE EscapeRange(re, lo, (lo + hi) \div 2) \o EscapeRange(re, ((lo + hi) \div 2) + 1, hi)

\* the loop of get_regex: "*" becomes ".*" and "." becomes "\."
escape_pattern(re) == EscapeRange(re, 1, Len(re))

\* the end of get_regex, for the match_info of the pattern
regex_of(info) ==
  IF info.is_regex_rule THEN info.text
  ELSE escape_pattern(
         (IF "LINE_START" \in info.pattern_mode THEN "^"
          ELSE IF "DOMAIN_START" \in info.pattern_mode THEN "^(*.)?" ELSE "")
         \o info.text
         \o (IF "LINE_END" \in info.pattern_mode THEN "$" ELSE ""))

get_regex_pattern(text) ==
  regex_of(extract_match_info(
    IF text = "" \/ Head(text) # "/" \/ Ch(text, Len(text)) # "/"
    THEN rsplit2_by(text, MODIFIERS_MARKER)[1] ELSE text))

\* rule_utils::get_regex, of the rule's text
get_regex(rule_text) ==
  get_regex_pattern(IF starts_with(rule_text, EXCEPTION_MARKER)
                    THEN SubSeq(rule_text, Len(EXCEPTION_MARKER) + 1, Len(rule_text))
                    ELSE rule_text)

Lowered(parts) == [k \in 1..Len(parts) |-> to_lower(parts[k])]

\* the last branch of parse_adblock_rule: a rule matched by a regex
regex_rule_of(orig_str, m, shortcuts) ==
  IF ~regex_is_valid(get_regex(orig_str)) THEN NoRule
  ELSE MakeRule(orig_str, "adblock", m.props, "",
                IF shortcuts # <<>> THEN "SHORTCUTS_AND_REGEX" ELSE "REGEX",
                Lowered(shortcuts), m.dnstype, m.dnsrewrite)

\* parse_adblock_rule once the modifiers are read: m is [props, dnstype,
\* dnsrewrite]
adblock_rule_of(orig_str, match_info, m) ==
  IF is_too_wide_rule(m.props, match_info.text) THEN NoRule
  ELSE IF "BADFILTER" \in m.props
  THEN MakeRule(orig_str, "adblock", m.props, "", "EXACT", <<>>, m.dnstype, m.dnsrewrite)
  ELSE IF ~match_info.is_regex_rule /\ pattern_exact(match_info.pattern_mode)
          /\ socket_address_valid(match_info.text)
  THEN MakeRule(orig_str, "adblock", m.props, "", "EXACT", <<to_lower(match_info.text)>>,
                m.dnstype, m.dnsrewrite)
  ELSE IF ~match_info.is_regex_rule /\ ~match_info.has_wildcard
          /\ (pattern_exact(match_info.pattern_mode)
                \/ pattern_subdomains(match_info.pattern_mode))
  THEN MakeRule(orig_str, "adblock", m.props, "",
                IF pattern_exact(match_info.pattern_mode) THEN "EXACT" ELSE "SUBDOMAINS",
                <<to_lower(match_info.text)>>, m.dnstype, m.dnsrewrite)
  ELSE IF ~match_info.is_regex_rule /\ match_info.pattern_mode = {}
  THEN MakeRule(orig_str, "adblock", m.props, "", "SHORTCUTS",
                Lowered(split_by(match_info.text, "*")), m.dnstype, m.dnsrewrite)
  ELSE regex_rule_of(orig_str, m,
                     IF Find(match_info.text, "?") # 0 THEN <<>>
                     ELSE extract_regex_shortcuts(strip_shortcut_regexes(match_info.text)))

\* parse_adblock_rule once the pattern is read
adblock_rule_modifiers(orig_str, match_info, m) ==
  IF ~match_info.is_regex_rule /\ ~is_valid_domain_pattern(match_info.text)
     /\ ~is_valid_ip_pattern(match_info.text)
  THEN NoRule
  ELSE IF m = NoValue THEN NoRule
  ELSE adblock_rule_of(orig_str, match_info, m)

\* parse_adblock_rule once the text is split at the modifiers marker
adblock_rule_parts(orig_str, is_exception, parts) ==
  adblock_rule_modifiers(orig_str, extract_match_info(parts[1]),
                         extract_modifiers(IF is_exception THEN {"EXCEPTION"} ELSE {},
                                           parts[2]))

adblock_rule_body(orig_str, is_exception, str) ==
  adblock_rule_parts(orig_str, is_exception,
                     IF ~check_regex(str) THEN rsplit2_by(str, MODIFIERS_MARKER)
                     ELSE <<str, "">>)

adblock_rule_marker(orig_str, is_exception) ==
  adblock_rule_body(orig_str, is_exception,
                    IF is_exception
                    THEN SubSeq(orig_str, Len(EXCEPTION_MARKER) + 1, Len(orig_str))
                    ELSE orig_str)

parse_adblock_rule(orig_str) ==
  adblock_rule_marker(orig_str, starts_with(orig_str, EXCEPTION_MARKER))

parse_trimmed(str) ==
  IF str = "" THEN NoRule
  ELSE IF is_domain_name(str) THEN make_exact_domain_name_rule(str)
  ELSE IF is_host_rule(str) THEN parse_host_file_rule(str)
  ELSE parse_adblock_rule(str)

\* rule_utils::parse: the rule of a line, NoRule for std::nullopt
parse(line) == IF is_comment(line) THEN NoRule ELSE parse_trimmed(trim(line))

\* rule_utils::get_text_without_badfilter, of the rule's text
get_text_without_badfilter(text) ==
  LET parts == rsplit2_by(text, MODIFIERS_MARKER)
      bf_pos == Find(parts[2], "badfilter") - 1
      after_bf_pos == bf_pos + Len("badfilter")
      prefix == SubSeq(text, 1, Len(parts[1]) + 1 + bf_pos)
      suffix == SubSeq(parts[2], after_bf_pos + 1, Len(parts[2]))
      prefix_back == IF prefix = "" THEN "" ELSE Ch(prefix, Len(prefix))
  IN IF prefix_back = "," \/ (suffix = "" /\ prefix_back = "$")
     THEN SubSeq(prefix, 1, Len(prefix) - 1) \o suffix
     ELSE IF suffix # "" /\ Head(suffix) = "," /\ prefix_back = "$"
     THEN prefix \o Tail(suffix)
     ELSE prefix \o suffix

(***************************************************************************)
(* Reading a rule source by lines (file.cpp).                              *)
(***************************************************************************)
\* the position of the first CR or LF of data at or after position p, or
\* Len(data) + 1
LineEnd(data, p) ==
  IF p > Len(data) THEN p
  ELSE SplitEnd(data, FirstOf({i \in p..Len(data) : Ch(data, i) \in {"\r", "\n"}}))

RECURSIVE for_each_line_loop(_, _, _)
\* the loops of ag::file::for_each_line with an action that returns true:
\* the calls action(line_idx, trimmed line) made for the bytes that end with
\* CR or LF.  `line` and `file_idx` live across the chunks that are read, so
\* the calls do not depend on where the chunks end; the result is
\* [calls, line, line_idx] at the end of the file
for_each_line_loop(data, line_idx, calls) ==
  LET e == LineEnd(data, line_idx + 1) IN
  IF e > Len(data)
  THEN [calls |-> calls, line |-> SubSeq(data, line_idx + 1, Len(data)),
        line_idx |-> line_idx]
  ELSE for_each_line_loop(data, e,
         Append(calls, <<line_idx, trim(SubSeq(data, line_idx + 1, e - 1))>>))

\* ag::file::for_each_line: the sequence of <<offset, line>> the action is
\* called with, as long as it returns true
for_each_line(data) ==
  LET file_size == Len(data)
      e == for_each_line_loop(data, 0, <<>>)
  \* (size_t)(file_size - 1) > line_idx: with file_size = 0 the left side is
  \* the largest size_t
  IN IF file_size = 0 \/ file_size - 1 > e.line_idx
     THEN Append(e.calls, <<e.line_idx, trim(e.line)>>)
     ELSE e.calls

\* ag::file::read_line: the trimmed bytes from offset pos up to the next CR,
\* LF or the end of the file
read_line(data, pos) ==
  IF pos >= Len(data) THEN ""
  ELSE trim(SubSeq(data, pos + 1, LineEnd(data, pos + 1) - 1))

(***************************************************************************)
(* The rule index (filter.cpp).  A khash table is a function from its keys *)
(* to its values.                                                          *)
(***************************************************************************)
APPROX_COMPILED_REGEX_BYTES == 1024
SHORTCUT_LENGTH == 5
\* sizeof(uint32_t), sizeof(std::vector<uint32_t>) and sizeof(leftover_entry)
\* on a 64-bit build
SIZEOF_UINT32 == 4
SIZEOF_VECTOR == 24
SIZEOF_LEFTOVER_ENTRY == 48

\* x * APPROX_FRAGMENTATION_COEF (1.5), converted back to size_t
TimesFragmentationCoef(x) == (x * 3) \div 2

EmptyTable == << >>

Remove(table, key) == [k \in (DOMAIN table) \ {key} |-> table[k]]
Put(table, key, value) == [k \in (DOMAIN table) \cup {key} |-> IF k = key THEN value ELSE table[k]]

\* the capacity of a std::vector after push_back on one of the given size
\* and capacity (the capacity doubles when it is used up)
GrownCapacity(size, capacity) ==
  IF size < capacity THEN capacity ELSE IF capacity = 0 THEN 1 ELSE 2 * capacity

RECURSIVE CapacityOf(_)
\* the capacity of a vector that grew by push_back from empty to `size`
CapacityOf(size) ==
  IF size = 0 THEN 0 ELSE GrownCapacity(size - 1, CapacityOf(size - 1))

\* put_hash_into_tables without the kh_del of the promoted key
put_hash_into_tables_keeping(h, file_idx, unique_table, multi_table) ==
  IF h \notin DOMAIN multi_table
  THEN IF h \notin DOMAIN unique_table
       THEN [unique |-> Put(unique_table, h, file_idx), multi |-> multi_table]
       ELSE [unique |-> unique_table,
             multi |-> Put(multi_table, h, <<unique_table[h], file_idx>>)]
  ELSE [unique |-> unique_table,
        multi |-> Put(multi_table, h, Append(multi_table[h], file_idx))]

\* put_hash_into_tables without the push_back of the promoted offset
put_hash_into_tables_forgetting(h, file_idx, unique_table, multi_table) ==
  IF h \notin DOMAIN multi_table
  THEN IF h \notin DOMAIN unique_table
       THEN [unique |-> Put(unique_table, h, file_idx), multi |-> multi_table]
       ELSE [unique |-> Remove(unique_table, h),
             multi |-> Put(multi_table, h, <<file_idx>>)]
  ELSE [unique |-> unique_table,
        multi |-> Put(multi_table, h, Append(multi_table[h], file_idx))]

\* filter::impl::put_hash_into_tables: [unique, multi] after the insertion
put_hash_into_tables(h, file_idx, unique_table, multi_table) ==
  IF h \notin DOMAIN multi_table
  THEN IF h \notin DOMAIN unique_table
       THEN [unique |-> Put(unique_table, h, file_idx), multi |-> multi_table]
       ELSE [unique |-> Remove(unique_table, h),
             multi |-> Put(multi_table, h, <<unique_table[h], file_idx>>)]
  ELSE [unique |-> unique_table,
        multi |-> Put(multi_table, h, Append(multi_table[h], file_idx))]

\* a new filter::impl
NewImpl ==
  [unique_domains |-> EmptyTable, domains |-> EmptyTable, shortcuts |-> EmptyTable,
   leftovers |-> <<>>, leftovers_capacity |-> 0, badfilter |-> EmptyTable,
   approx_mem |-> 0, inserted |-> <<>>, stopped |-> <<>>]

(***************************************************************************)
(* Loading (filter.cpp).  load_line_arg is the record                      *)
(* [filter, approx_mem, mem_limit, result]; `cont` is what load_line       *)
(* returns to for_each_line.  Two fields of the index are histories kept   *)
(* for stating properties, which the code does not have: `inserted`, the   *)
(* lines <<file_idx, line>> that reached next_line, and `stopped`, the     *)
(* <<file_idx, approx_rule_mem>> of the line at which CHECK_MEM returned.  *)
(***************************************************************************)
\* CHECK_MEM without the test that a limit is set
CHECK_MEM_fails_unguarded(a, approx_rule_mem) ==
  a.mem_limit < a.approx_mem + approx_rule_mem

\* the condition of CHECK_MEM
CHECK_MEM_fails(a, approx_rule_mem) ==
  a.mem_limit # 0 /\ a.mem_limit < a.approx_mem + approx_rule_mem

\* the body of CHECK_MEM when the condition holds
MemLimitReached(a, approx_rule_mem, file_idx) ==
  [a EXCEPT !.result = "LR_MEM_LIMIT_REACHED", !.cont = FALSE,
            !.filter.stopped = <<<<file_idx, approx_rule_mem>>>>]

\* the label next_line of load_line
next_line(a, approx_rule_mem, file_idx, line) ==
  [a EXCEPT !.approx_mem = @ + approx_rule_mem, !.result = "LR_OK",
            !.filter.inserted = Append(@, <<file_idx, line>>)]

\* the loop over the matching parts, left after the first part
put_first_part_into_tables(self, parts, file_idx) ==
  IF parts = <<>> THEN self
  ELSE LET t == put_hash_into_tables(hash(Head(parts)), file_idx,
                                     self.unique_domains, self.domains)
       IN [self EXCEPT !.unique_domains = t.unique, !.domains = t.multi]

RECURSIVE put_parts_into_tables(_, _, _)
\* the loop of load_line over the matching parts of a domain rule
put_parts_into_tables(self, parts, file_idx) ==
  IF parts = <<>> THEN self
  ELSE LET t == put_hash_into_tables(hash(Head(parts)), file_idx,
                                     self.unique_domains, self.domains)
       IN put_parts_into_tables(
            [self EXCEPT !.unique_domains = t.unique, !.domains = t.multi],
            Tail(parts), file_idx)

RECURSIVE first_shortcut(_)
\* the first matching part that is at least SHORTCUT_LENGTH long, or ""
first_shortcut(parts) ==
  IF parts = <<>> THEN ""
  ELSE IF Len(Head(parts)) >= SHORTCUT_LENGTH THEN Head(parts)
  ELSE first_shortcut(Tail(parts))

RECURSIVE SumLen(_)
SumLen(parts) == IF parts = <<>> THEN 0 ELSE Len(Head(parts)) + SumLen(Tail(parts))

\* load_line, the badfilter branch: h is the hash of the text without the
\* modifier
load_badfilter_rule(a, h, file_idx, line) ==
  IF CHECK_MEM_fails(a, 4 * SIZEOF_UINT32)
  THEN MemLimitReached(a, 4 * SIZEOF_UINT32, file_idx)
  ELSE next_line([a EXCEPT !.filter.badfilter = Put(@, h, file_idx)],
                 4 * SIZEOF_UINT32, file_idx, line)

\* load_line, case MMID_EXACT / MMID_SUBDOMAINS
load_domain_rule(a, matching_parts, file_idx, line) ==
  IF CHECK_MEM_fails(a, Len(matching_parts) * 4 * SIZEOF_UINT32)
  THEN MemLimitReached(a, Len(matching_parts) * 4 * SIZEOF_UINT32, file_idx)
  ELSE next_line([a EXCEPT !.filter = put_parts_into_tables(@, matching_parts, file_idx)],
                 Len(matching_parts) * 4 * SIZEOF_UINT32, file_idx, line)

\* the end of an insertion that is made before CHECK_MEM: b is the argument
\* with the entry in its table
check_mem_after(b, approx_rule_mem, file_idx, line) ==
  IF CHECK_MEM_fails(b, approx_rule_mem) THEN MemLimitReached(b, approx_rule_mem, file_idx)
  ELSE next_line(b, approx_rule_mem, file_idx, line)

\* approx_rule_mem of a rule pushed to `positions` in the shortcuts table
shortcut_rule_mem(is_new, positions) ==
  TimesFragmentationCoef(
    ((IF is_new
      THEN 2 * (SIZEOF_UINT32 + SIZEOF_VECTOR + CapacityOf(0) * SIZEOF_UINT32)
      ELSE 0)
     - CapacityOf(Len(positions)) * SIZEOF_UINT32)
    + CapacityOf(Len(positions) + 1) * SIZEOF_UINT32)

push_shortcut(a, h, is_new, positions, file_idx, line) ==
  check_mem_after([a EXCEPT !.filter.shortcuts = Put(@, h, Append(positions, file_idx))],
                  shortcut_rule_mem(is_new, positions), file_idx, line)

\* load_line, case MMID_SHORTCUTS / MMID_SHORTCUTS_AND_REGEX with a shortcut
\* of hash h: the position is pushed before CHECK_MEM
load_shortcut_rule(a, h, file_idx, line) ==
  push_shortcut(a, h, h \notin DOMAIN a.filter.shortcuts,
                IF h \in DOMAIN a.filter.shortcuts THEN a.filter.shortcuts[h] ELSE <<>>,
                file_idx, line)

\* approx_rule_mem of an entry appended to the leftovers table, whose
\* capacity grew from `capacity` to `grown`
leftover_rule_mem(entry, capacity, grown) ==
  TimesFragmentationCoef(
    ((grown - capacity) * SIZEOF_LEFTOVER_ENTRY) + SumLen(entry.shortcuts)
      + (IF entry.regex.has_value THEN APPROX_COMPILED_REGEX_BYTES ELSE 0))

emplace_leftover(a, entry, grown, line) ==
  check_mem_after([a EXCEPT !.filter.leftovers = Append(@, entry),
                            !.filter.leftovers_capacity = grown],
                  leftover_rule_mem(entry, a.filter.leftovers_capacity, grown),
                  entry.file_idx, line)

\* load_line, case MMID_REGEX and the fall through of a shortcut rule: the
\* entry is appended before CHECK_MEM.  An entry with neither shortcuts nor
\* a regex fails the assert; a build without asserts appends it
load_leftover_rule(a, rule, file_idx, line) ==
  emplace_leftover(
    a,
    [shortcuts |-> Lowered(rule.matching_parts),
     regex |-> IF rule.match_method = "SHORTCUTS" THEN [has_value |-> FALSE, re |-> ""]
               ELSE [has_value |-> TRUE, re |-> get_regex(rule.text)],
     file_idx |-> file_idx],
    GrownCapacity(Len(a.filter.leftovers), a.filter.leftovers_capacity), line)

\* load_line, case MMID_SHORTCUTS / MMID_SHORTCUTS_AND_REGEX: sc is the first
\* part that is long enough, "" if there is none
load_pattern_rule(a, rule, sc, file_idx, line) ==
  IF sc # "" THEN load_shortcut_rule(a, hash(SubSeq(sc, 1, SHORTCUT_LENGTH)), file_idx, line)
  ELSE load_leftover_rule(a, rule, file_idx, line)

\* load_line once the line is parsed
load_rule(a, rule, file_idx, line) ==
  IF rule = NoRule THEN a
  ELSE IF rule.content = "adblock" /\ "BADFILTER" \in rule.props
  THEN load_badfilter_rule(a, hash(get_text_without_badfilter(rule.text)), file_idx, line)
  ELSE IF rule.match_method \in {"EXACT", "SUBDOMAINS"}
  THEN load_domain_rule(a, rule.matching_parts, file_idx, line)
  ELSE IF rule.match_method \in {"SHORTCUTS", "SHORTCUTS_AND_REGEX"}
  THEN load_pattern_rule(a, rule, first_shortcut(rule.matching_parts), file_idx, line)
  ELSE load_leftover_rule(a, rule, file_idx, line)

\* filter::impl::load_line
load_line(a, file_idx, line) == load_rule(a, parse(line), file_idx, line)

\* count_rules once the line is parsed, as far as load uses it: 1 if the
\* line adds to stat.leftover_rules
count_rule(rule) ==
  IF rule = NoRule THEN 0
  ELSE IF rule.content = "adblock" /\ "BADFILTER" \in rule.props THEN 0
  ELSE IF rule.match_method = "REGEX" THEN 1 ELSE 0

count_rules(line) == count_rule(parse(line))

RECURSIVE leftover_rules(_)
\* stat.leftover_rules after the counting pass over the given calls
leftover_rules(calls) ==
  IF calls = <<>> THEN 0 ELSE count_rules(Head(calls)[2]) + leftover_rules(Tail(calls))

RECURSIVE load_lines(_, _)
\* for_each_line with load_line as the action: it stops when load_line
\* returns false
load_lines(a, calls) ==
  IF calls = <<>> \/ ~a.cont THEN a
  ELSE load_lines(load_line(a, Head(calls)[1], Head(calls)[2]), Tail(calls))

\* ag::utils::for_each_line of a rule blob: every line of the text, with its
\* offset, the last one included
utils_for_each_line(data) ==
  LET e == for_each_line_loop(data, 0, <<>>)
  IN IF e.line_idx < Len(data) THEN Append(e.calls, <<e.line_idx, trim(e.line)>>)
     ELSE e.calls

\* ag::utils::read_line of a rule blob
utils_read_line(data, pos) == read_line(data, pos)

\* the file at the path of a file-backed filter: mtime is what
\* get_modification_time returns, 0 when the file does not exist
NoFile == [exists |-> FALSE, data |-> "", mtime |-> 0]

\* the filter_params of a filter that was never loaded
NoParams == [data |-> "", in_memory |-> FALSE, mtime |-> 0]

FILTER_PATH == "filter.txt"

\* the file the parameters name
FileOf(p, fs) == IF p.data = FILTER_PATH THEN fs ELSE NoFile

\* what load returns and leaves in the filter after the loading pass ended
\* with the argument a
loaded(a, p, fs) ==
  [result |-> a.result, mem |-> a.approx_mem,
   params |-> [data |-> p.data, in_memory |-> p.in_memory, mtime |-> FileOf(p, fs).mtime],
   pimpl |-> [a.filter EXCEPT !.approx_mem = a.approx_mem,
                              !.leftovers_capacity = Len(a.filter.leftovers)]]

\* the loading pass of load, after leftovers_table.reserve(reserved)
load_pass(f, p, mem_limit, fs, calls, reserved) ==
  loaded(load_lines([filter |-> [f.pimpl EXCEPT !.leftovers_capacity =
                                   IF reserved > @ THEN reserved ELSE @],
                     approx_mem |-> 0, mem_limit |-> mem_limit,
                     result |-> "LR_OK", cont |-> TRUE], calls),
         p, fs)

\* the counting pass of load over the lines of the source
count_pass(f, p, mem_limit, fs, calls) ==
  load_pass(f, p, mem_limit, fs, calls, leftover_rules(calls))

\* filter::load taking the modification time of the source before it gives
\* up on a file it cannot open
load_stamping(f, p, mem_limit, fs) ==
  IF ~p.in_memory /\ ~FileOf(p, fs).exists
  THEN [result |-> "LR_ERROR", mem |-> 0,
        params |-> [f.params EXCEPT !.mtime = FileOf(p, fs).mtime], pimpl |-> f.pimpl]
  ELSE count_pass(f, p, mem_limit, fs,
                  IF p.in_memory THEN utils_for_each_line(p.data)
                  ELSE for_each_line(FileOf(p, fs).data))

\* filter::load of parameters p under mem_limit, on the filter
\* [params, pimpl] with the file system fs: [result, mem, params, pimpl]
load(f, p, mem_limit, fs) ==
  IF ~p.in_memory /\ ~FileOf(p, fs).exists
  THEN [result |-> "LR_ERROR", mem |-> 0, params |-> f.params, pimpl |-> f.pimpl]
  ELSE count_pass(f, p, mem_limit, fs,
                  IF p.in_memory THEN utils_for_each_line(p.data)
                  ELSE for_each_line(FileOf(p, fs).data))

(***************************************************************************)
(* Matching (filter.cpp).  A match context is [host, subdomains, rr_type,  *)
(* matched_rules, capacity]: capacity is the capacity of the vector        *)
(* matched_rules.  match_arg is the context with the fields `outdated` and *)
(* `relocated`; relocated says that the buffer of matched_rules was        *)
(* reallocated since search_badfilter_rules took its iterators.            *)
(***************************************************************************)
RECURSIVE subdomains_of(_, _)
\* the loop of create_match_context: n more suffixes after `last`
subdomains_of(last, n) ==
  IF n = 0 THEN <<>>
  ELSE LET next == split2_by(last, ".")[2] IN <<next>> \o subdomains_of(next, n - 1)

\* filter::create_match_context
create_match_context(domain, rr_type) ==
  LET host == to_lower(domain)
      dots == CountChar(host, ".")
      n == IF dots > 0 THEN dots - 1 ELSE dots
  IN [host |-> host, subdomains |-> <<host>> \o subdomains_of(host, n),
      rr_type |-> rr_type, matched_rules |-> <<>>, capacity |-> 0]

SeqContains(seq, x) == \E k \in 1..Len(seq) : seq[k] = x

\* match_adblock_modifiers without the branch of the dnstype modifier
match_adblock_modifiers_untyped(rule, ctx) ==
  IF "BADFILTER" \in rule.props THEN "AMMS_MATCHED_SURELY"
  ELSE IF "DNSREWRITE" \in rule.props /\ rule.dnsrewrite # NoValue
          /\ \/ (rule.dnsrewrite.rrtype = "A" /\ ctx.rr_type # "A")
             \/ (rule.dnsrewrite.rrtype = "AAAA" /\ ctx.rr_type # "AAAA")
             \/ (rule.dnsrewrite.rrtype = "PTR" /\ ctx.rr_type # "PTR")
             \/ (rule.dnsrewrite.rrtype = "CNAME"
                   /\ ctx.rr_type # "A" /\ ctx.rr_type # "AAAA")
  THEN "AMMS_NOT_MATCHED"
  ELSE "AMMS_MATCH_CANDIDATE"

\* match_adblock_modifiers
match_adblock_modifiers(rule, ctx) ==
  IF "BADFILTER" \in rule.props THEN "AMMS_MATCHED_SURELY"
  ELSE IF "DNSTYPE" \in rule.props
  THEN IF rule.dnstype.mode = "ENABLE"
       THEN IF SeqContains(rule.dnstype.types, ctx.rr_type)
            THEN "AMMS_MATCH_CANDIDATE" ELSE "AMMS_NOT_MATCHED"
       ELSE IF ~SeqContains(rule.dnstype.types, ctx.rr_type)
            THEN "AMMS_MATCH_CANDIDATE" ELSE "AMMS_NOT_MATCHED"
  ELSE IF "DNSREWRITE" \in rule.props /\ rule.dnsrewrite # NoValue
          /\ \/ (rule.dnsrewrite.rrtype = "A" /\ ctx.rr_type # "A")
             \/ (rule.dnsrewrite.rrtype = "AAAA" /\ ctx.rr_type # "AAAA")
             \/ (rule.dnsrewrite.rrtype = "PTR" /\ ctx.rr_type # "PTR")
             \/ (rule.dnsrewrite.rrtype = "CNAME"
                   /\ ctx.rr_type # "A" /\ ctx.rr_type # "AAAA")
  THEN "AMMS_NOT_MATCHED"
  ELSE "AMMS_MATCH_CANDIDATE"

RECURSIVE match_shortcuts_from(_, _, _, _)
\* the loop of match_shortcuts; seek counts bytes from 0
match_shortcuts_from(shortcuts, domain, seek, found) ==
  IF shortcuts = <<>> THEN found
  ELSE IF FindFrom(domain, Head(shortcuts), seek + 1) = 0 THEN FALSE
  ELSE match_shortcuts_from(Tail(shortcuts), domain, seek + Len(Head(shortcuts)), TRUE)

\* match_shortcuts
match_shortcuts(shortcuts, domain) == match_shortcuts_from(shortcuts, domain, 0, FALSE)

\* match_pattern
match_pattern(rule, host, subdomains) ==
  CASE rule.match_method = "EXACT" -> SeqContains(rule.matching_parts, host)
    [] rule.match_method = "SUBDOMAINS" ->
         \E i \in 1..Len(rule.matching_parts) :
           SeqContains(subdomains, rule.matching_parts[i])
    [] rule.match_method = "SHORTCUTS" -> match_shortcuts(rule.matching_parts, host)
    [] rule.match_method = "SHORTCUTS_AND_REGEX" ->
         /\ match_shortcuts(rule.matching_parts, host)
         /\ regex_match(get_regex(rule.text), host)
    [] rule.match_method = "REGEX" ->
         \E i \in 1..Len(subdomains) : regex_match(get_regex(rule.text), subdomains[i])

\* std::vector::emplace_back on matched_rules
emplace_back(m, public_part) ==
  [m EXCEPT !.matched_rules = Append(@, public_part),
            !.capacity = GrownCapacity(Len(m.matched_rules), @),
            !.relocated = @ \/ (Len(m.matched_rules) >= m.capacity)]

\* the public part of a rule, as far as the model keeps it
public_part(rule) == [text |-> rule.text, content |-> rule.content, props |-> rule.props]

\* match_against_line once the modifiers are matched
match_rule_pattern(m, rule, status) ==
  IF status = "AMMS_NOT_MATCHED" THEN m
  ELSE IF status = "AMMS_MATCHED_SURELY" \/ match_pattern(rule, m.host, m.subdomains)
  THEN emplace_back(m, public_part(rule))
  ELSE m

\* match_against_line once the line is parsed
match_rule(m, rule) ==
  IF rule = NoRule THEN m
  ELSE match_rule_pattern(m, rule,
                          IF rule.content = "adblock" THEN match_adblock_modifiers(rule, m)
                          ELSE "AMMS_MATCH_CANDIDATE")

\* filter::impl::match_against_line
match_against_line(m, line) == match_rule(m, parse(line))

\* is_unique_rule
is_unique_rule(rules, line) == ~\E k \in 1..Len(rules) : line = rules[k].text

\* filter::impl::check_filter_outdated
check_filter_outdated(f, fs) ==
  IF f.params.in_memory THEN FALSE
  ELSE LET file_mtime == FileOf(f.params, fs).mtime
       IN file_mtime = 0 \/ file_mtime # f.params.mtime

\* match_by_file_position once the line is read
match_line(m, line) ==
  IF ~is_unique_rule(m.matched_rules, line) THEN m ELSE match_against_line(m, line)

\* filter::impl::match_by_file_position
match_by_file_position(m, f, fs, idx) ==
  IF ~f.params.in_memory /\ (m.outdated \/ check_filter_outdated(f, fs))
  THEN [m EXCEPT !.outdated = TRUE]
  ELSE IF ~f.params.in_memory /\ ~FileOf(f.params, fs).exists THEN m
  ELSE match_line(m, IF f.params.in_memory THEN utils_read_line(f.params.data, idx)
                     ELSE read_line(FileOf(f.params, fs).data, idx))

RECURSIVE match_by_file_positions(_, _, _, _)
\* match_by_file_position for each position of a vector of positions
match_by_file_positions(m, f, fs, positions) ==
  IF positions = <<>> THEN m
  ELSE match_by_file_positions(match_by_file_position(m, f, fs, Head(positions)),
                               f, fs, Tail(positions))

\* the probes of search_by_domains for a subdomain of hash h
search_by_domain(m, f, fs, h) ==
  IF h \in DOMAIN f.pimpl.unique_domains
  THEN match_by_file_position(m, f, fs, f.pimpl.unique_domains[h])
  ELSE IF h \in DOMAIN f.pimpl.domains
  THEN match_by_file_positions(m, f, fs, f.pimpl.domains[h])
  ELSE m

RECURSIVE search_by_domains_from(_, _, _, _)
search_by_domains_from(m, f, fs, i) ==
  IF i > Len(m.subdomains) THEN m
  ELSE search_by_domains_from(search_by_domain(m, f, fs, hash(m.subdomains[i])),
                              f, fs, i + 1)

\* filter::impl::search_by_domains
search_by_domains(m, f, fs) ==
  IF m.outdated THEN m ELSE search_by_domains_from(m, f, fs, 1)

\* the probe of search_by_shortcuts for a window of hash h
search_by_shortcut(m, f, fs, h) ==
  IF h \in DOMAIN f.pimpl.shortcuts
  THEN match_by_file_positions(m, f, fs, f.pimpl.shortcuts[h])
  ELSE m

RECURSIVE search_by_shortcuts_from(_, _, _, _)
search_by_shortcuts_from(m, f, fs, i) ==
  IF i > Len(m.host) - SHORTCUT_LENGTH THEN m
  ELSE search_by_shortcuts_from(
         search_by_shortcut(m, f, fs, hash(SubSeq(m.host, i + 1, i + SHORTCUT_LENGTH))),
         f, fs, i + 1)

\* filter::impl::search_by_shortcuts
search_by_shortcuts(m, f, fs) ==
  IF Len(m.host) < SHORTCUT_LENGTH \/ m.outdated THEN m
  ELSE search_by_shortcuts_from(m, f, fs, 0)

\* the body of the loop of search_in_leftovers
search_in_leftover(m, f, fs, entry) ==
  IF entry.shortcuts # <<>> /\ ~match_shortcuts(entry.shortcuts, m.host) THEN m
  ELSE IF ~entry.regex.has_value \/ regex_match(entry.regex.re, m.host)
  THEN match_by_file_position(m, f, fs, entry.file_idx)
  ELSE m

RECURSIVE search_in_leftovers_from(_, _, _, _)
search_in_leftovers_from(m, f, fs, i) ==
  IF i > Len(f.pimpl.leftovers) THEN m
  ELSE search_in_leftovers_from(search_in_leftover(m, f, fs, f.pimpl.leftovers[i]),
                                f, fs, i + 1)

\* filter::impl::search_in_leftovers
search_in_leftovers(m, f, fs) ==
  IF m.outdated THEN m ELSE search_in_leftovers_from(m, f, fs, 1)

\* the probe of search_badfilter_rules for a rule text of hash h
search_badfilter_rule(m, f, fs, h) ==
  IF h \in DOMAIN f.pimpl.badfilter
  THEN match_by_file_position(m, f, fs, f.pimpl.badfilter[h])
  ELSE m

RECURSIVE search_badfilter_rules_from(_, _, _, _, _, _)
\* the range-for of search_badfilter_rules over the n rules that were in
\* matched_rules when it started.  match_by_file_position appends to the
\* vector the loop iterates: once an append has reallocated the buffer, the
\* loop reads `rule.text` through a dangling reference.  That read is
\* undefined: for the iterations in `garbled` it yields bytes that are the
\* text of no rule (the probe of the badfilter table finds nothing), for the
\* others the freed buffer still holds the text
search_badfilter_rules_from(m, f, fs, i, n, garbled) ==
  IF i > n THEN m
  ELSE IF m.relocated /\ i \in garbled
  THEN search_badfilter_rules_from(m, f, fs, i + 1, n, garbled)
  ELSE search_badfilter_rules_from(
         search_badfilter_rule(m, f, fs, hash(m.matched_rules[i].text)),
         f, fs, i + 1, n, garbled)

\* filter::impl::search_badfilter_rules
search_badfilter_rules(m, f, fs, garbled) ==
  IF m.outdated THEN m
  ELSE search_badfilter_rules_from([m EXCEPT !.relocated = FALSE], f, fs, 1,
                                   Len(m.matched_rules), garbled)

\* the iterations of search_badfilter_rules that read through a dangling
\* reference when every earlier read found its text
DanglingReads(m, f, fs) ==
  IF m.outdated THEN {}
  ELSE {i \in 1..Len(m.matched_rules) :
          search_badfilter_rules_from([m EXCEPT !.relocated = FALSE], f, fs, 1, i - 1, {}).relocated}

\* the match_arg of filter::match
match_arg(ctx) ==
  [host |-> ctx.host, subdomains |-> ctx.subdomains, rr_type |-> ctx.rr_type,
   matched_rules |-> ctx.matched_rules, capacity |-> ctx.capacity,
   outdated |-> FALSE, relocated |-> FALSE]

\* the state of the search before search_badfilter_rules
before_badfilter_search(f, fs, ctx) ==
  search_in_leftovers(
    search_by_shortcuts(search_by_domains(match_arg(ctx), f, fs), f, fs), f, fs)

\* the end of filter::match: [ctx, ret]
match_result(ctx, m) ==
  [ctx |-> [ctx EXCEPT !.matched_rules = m.matched_rules, !.capacity = m.capacity],
   ret |-> ~m.outdated]

\* filter::match on context ctx
match(f, fs, ctx, garbled) ==
  match_result(ctx, search_badfilter_rules(before_badfilter_search(f, fs, ctx), f, fs, garbled))

(***************************************************************************)
(* Effective-rule selection over the accumulator of matched rules.         *)
(***************************************************************************)
\* the rule is annulled by a badfilter rule of the accumulator
is_annulled(rules, r) ==
  \E k \in 1..Len(rules) :
    /\ "BADFILTER" \in rules[k].props
    /\ get_text_without_badfilter(rules[k].text) = r.text

\* the precedence of a rule: important exception > important block >
\* exception > block; a hosts rule is a block
precedence(r) ==
  IF r.content = "hosts" THEN 1
  ELSE IF "IMPORTANT" \in r.props /\ "EXCEPTION" \in r.props THEN 4
  ELSE IF "IMPORTANT" \in r.props THEN 3
  ELSE IF "EXCEPTION" \in r.props THEN 2
  ELSE 1

\* only a rule of a higher precedence replaces the best one so far
shadows_strictly(r, best) == precedence(r) > precedence(best)

\* a later rule of the same precedence shadows an earlier one
shadows(r, best) == precedence(r) >= precedence(best)

RECURSIVE get_effective_rule_from(_, _, _)
get_effective_rule_from(rules, i, best) ==
  IF i > Len(rules) THEN best
  ELSE IF "BADFILTER" \in rules[i].props \/ is_annulled(rules, rules[i])
  THEN get_effective_rule_from(rules, i + 1, best)
  ELSE IF best = NoRule \/ shadows(rules[i], best)
  THEN get_effective_rule_from(rules, i + 1, rules[i])
  ELSE get_effective_rule_from(rules, i + 1, best)

\* the effective rule of the accumulator, NoRule when nothing is left
get_effective_rule(rules) == get_effective_rule_from(rules, 1, NoRule)

(***************************************************************************)
(* The state machine: one filter of the engine, the file of its rule list, *)
(* the engine's shared memory budget and the context of the query being    *)
(* answered.                                                               *)
(***************************************************************************)
VARIABLES
  fs,         \* the file at FILTER_PATH: [exists, data, mtime]
  clock,      \* the time of the last change of the file system
  f,          \* the filter: [params, pimpl]
  state,      \* "constructed" until a load succeeds, then "loaded"
  mem_limit,  \* the engine's std::atomic_size_t budget
  last_load,  \* the last call of load: [caller, mem_limit, result, mem]
  ctx,        \* the match context of the query
  match_ret,  \* what filter::match returned for it
  pc,         \* "idle", or "matched" while the caller holds the context
  reader,     \* the calls a line_action got from for_each_line: [called, calls]
  probe,      \* a function applied on its own: [fn, args, called, ret]
  settings,        \* the forwarder's dnsproxy_settings
  now,             \* the steady clock, in seconds
  response_cache,  \* the forwarder's LRU cache, most recently used entry first
  requests,        \* the messages being handled: id -> the state of its handling
  async_reqs,      \* the cache keys with a resolution in flight
  events           \* the dns_request_processed_events fired so far

\* the variables of the forwarder
forwarder_vars == <<settings, now, response_cache, requests, async_reqs, events>>

vars == <<fs, clock, f, state, mem_limit, last_load, ctx, match_ret, pc, reader, probe, forwarder_vars>>

\* size_t is 64 bits wide; the model keeps the budget modulo a smaller power
\* of two, so that a subtraction below zero wraps the same way
SIZE_T_RANGE == 2 ^ 30

MaxLines == 4
MaxClock == 3

RECURSIVE JoinLines(_)
\* the text of a rule list: its lines, separated by line feeds
JoinLines(lines) ==
  IF lines = <<>> THEN ""
  ELSE IF Len(lines) = 1 THEN lines[1]
  ELSE Head(lines) \o "\n" \o JoinLines(Tail(lines))

RECURSIVE Select(_, _, _)
\* the lines of master whose index is in S, in order
Select(master, S, i) ==
  IF i > Len(master) THEN <<>>
  ELSE (IF i \in S THEN <<master[i]>> ELSE <<>>) \o Select(master, S, i + 1)

\* the rule lists made of at most MaxLines lines of a master list
ListsOf(master) ==
  {JoinLines(Select(master, S, 1)) :
     S \in {T \in SUBSET (1..Len(master)) : Cardinality(T) <= MaxLines}}

NoContext ==
  [host |-> "", subdomains |-> <<>>, rr_type |-> "", matched_rules |-> <<>>, capacity |-> 0]

NoLoad == [caller |-> "none", mem_limit |-> 0, result |-> "none", mem |-> 0]

\* no line_action was handed to for_each_line yet
NoLines == [called |-> FALSE, calls |-> <<>>]

\* the forwarder before dns_forwarder::init
NoForwarder ==
  /\ settings = [initialized |-> FALSE]
  /\ now = 0
  /\ response_cache = <<>>
  /\ requests = <<>>
  /\ async_reqs = {}
  /\ events = <<>>

\* no function was applied on its own
NoProbe == [fn |-> "", args |-> <<>>, called |-> FALSE, ret |-> FALSE]

\* the state after `filter f;` for the given file and budget
Constructed(file_data, budget) ==
  /\ fs = [exists |-> TRUE, data |-> file_data, mtime |-> 1]
  /\ clock = 1
  /\ f = [params |-> NoParams, pimpl |-> NewImpl]
  /\ state = "constructed"
  /\ mem_limit = budget
  /\ last_load = NoLoad
  /\ ctx = NoContext
  /\ match_ret = TRUE
  /\ pc = "idle"
  /\ reader = NoLines
  /\ probe = NoProbe
  /\ NoForwarder

\* the filter and the record of the call after load returned r to caller
Loaded(r, limit, caller) ==
  /\ f' = [params |-> r.params, pimpl |-> r.pimpl]
  /\ last_load' = [caller |-> caller, mem_limit |-> limit, result |-> r.result, mem |-> r.mem]

\* the engine loads the filter with parameters p under its budget
Load(p) ==
  /\ state = "constructed"
  /\ pc = "idle"
  /\ Loaded(load(f, p, mem_limit, fs), mem_limit, "engine")
  /\ state' = IF last_load'.result = "LR_ERROR" THEN "constructed" ELSE "loaded"
  /\ UNCHANGED <<fs, clock, mem_limit, ctx, match_ret, pc, reader, probe, forwarder_vars>>

LoadFile == Load([data |-> FILTER_PATH, in_memory |-> FALSE])

LoadBlob(blob) == Load([data |-> blob, in_memory |-> TRUE])

\* filter::match returned r
Matched(r) ==
  /\ ctx' = r.ctx
  /\ match_ret' = r.ret

\* filter::match on the context c, with any outcome of its undefined reads
MatchContext(c, m) ==
  \E garbled \in SUBSET DanglingReads(m, f, fs) :
    Matched(match_result(c, search_badfilter_rules(m, f, fs, garbled)))

\* a query: create_match_context, then filter::match
Match(domain, rr_type) ==
  /\ state = "loaded"
  /\ pc = "idle"
  /\ MatchContext(create_match_context(domain, rr_type),
                  before_badfilter_search(f, fs, create_match_context(domain, rr_type)))
  /\ pc' = "matched"
  /\ UNCHANGED <<fs, clock, f, state, mem_limit, last_load, reader, probe, forwarder_vars>>

\* the caller is done with the context
DropContext ==
  /\ pc = "matched"
  /\ pc' = "idle"
  /\ ctx' = NoContext
  /\ match_ret' = TRUE
  /\ UNCHANGED <<fs, clock, f, state, mem_limit, last_load, reader, probe, forwarder_vars>>

\* the end of filter::update: load returned r under the restored budget
Updated(r, restored) ==
  /\ Loaded(r, restored, "update")
  /\ mem_limit' = (restored - r.mem) % SIZE_T_RANGE

\* filter::update after `mem_limit += freed_mem`
Reload(restored) ==
  Updated(load([params |-> f.params, pimpl |-> NewImpl],
               [data |-> f.params.data, in_memory |-> f.params.in_memory],
               restored, fs),
          restored)

\* filter::update
Update ==
  /\ state = "loaded"
  /\ pc = "idle"
  /\ Reload((mem_limit + f.pimpl.approx_mem) % SIZE_T_RANGE)
  /\ UNCHANGED <<fs, clock, state, ctx, match_ret, pc, reader, probe, forwarder_vars>>

\* the file is touched: its modification time changes, its bytes do not
TouchFile ==
  /\ pc = "idle"
  /\ fs.exists
  /\ clock < MaxClock
  /\ clock' = clock + 1
  /\ fs' = [fs EXCEPT !.mtime = clock + 1]
  /\ UNCHANGED <<f, state, mem_limit, last_load, ctx, match_ret, pc, reader, probe, forwarder_vars>>

\* the file is written anew
WriteFile(data) ==
  /\ pc = "idle"
  /\ clock < MaxClock
  /\ ~fs.exists \/ data # fs.data
  /\ clock' = clock + 1
  /\ fs' = [exists |-> TRUE, data |-> data, mtime |-> clock + 1]
  /\ UNCHANGED <<f, state, mem_limit, last_load, ctx, match_ret, pc, reader, probe, forwarder_vars>>

\* the file is removed
RemoveFile ==
  /\ pc = "idle"
  /\ fs.exists
  /\ fs' = NoFile
  /\ UNCHANGED <<clock, f, state, mem_limit, last_load, ctx, match_ret, pc, reader, probe, forwarder_vars>>

(***************************************************************************)
(* The life of a filter: loading from a file or from a blob, queries,      *)
(* changes of the file and updates.                                        *)
(***************************************************************************)
LIFE_RULES == <<"example.org", "||example.org^">>
LifeLists == ListsOf(LIFE_RULES)
LifeBudgets == {0, 16, 40}
LifeHosts == {"example.org", "other.net"}
LifeTypes == {"A"}

Init == \E data \in LifeLists, budget \in LifeBudgets : Constructed(data, budget)

Next ==
  \/ LoadFile
  \/ \E blob \in LifeLists : LoadBlob(blob)
  \/ \E domain \in LifeHosts, rr_type \in LifeTypes : Match(domain, rr_type)
  \/ DropContext
  \/ Update
  \/ TouchFile
  \/ \E data \in LifeLists : WriteFile(data)
  \/ RemoveFile

Spec == Init /\ [][Next]_vars

(***************************************************************************)
(* Loading alone: rule lists of every kind of rule, loaded from the file   *)
(* or from a blob under several budgets.                                   *)
(***************************************************************************)
LOAD_RULES ==
  <<"example.org", "||example.org^", "0.0.0.0 ads.example.org example.org",
    "example.org$badfilter", "example.org$badfilter", "ex*.org", "/^ex.*\\.org$/",
    "||ads.example.org^">>
LoadLists == ListsOf(LOAD_RULES)
LoadBlobs == ListsOf(<<"example.org", "examples.org^", "! a comment">>)
LoadBudgets == {0, 16, 40, 100, 2000}

InitLoad == \E data \in LoadLists, budget \in LoadBudgets : Constructed(data, budget)

NextLoad ==
  \/ LoadFile
  \/ \E blob \in LoadBlobs : LoadBlob(blob)

SpecLoad == InitLoad /\ [][NextLoad]_vars

(***************************************************************************)
(* Properties of the index after load.                                     *)
(***************************************************************************)
\* the calls load_line got for the source the filter was loaded from
SourceCalls ==
  IF f.params.in_memory THEN utils_for_each_line(f.params.data) ELSE for_each_line(fs.data)

IsRuleCall(call) == parse(call[2]) # NoRule

\* the lines of the source that are rules, with their offsets
RuleLines == SelectSeq(SourceCalls, IsRuleCall)

\* the places <<key, position>> of the values of a table of vectors
PlacesOf(table) == UNION {{<<h, i>> : i \in 1..Len(table[h])} : h \in DOMAIN table}

\* the number of entries of the index that point at the offset o, by table
UniqueEntries(p, o) == Cardinality({h \in DOMAIN p.unique_domains : p.unique_domains[h] = o})
DomainsEntries(p, o) == Cardinality({x \in PlacesOf(p.domains) : p.domains[x[1]][x[2]] = o})
ShortcutEntries(p, o) == Cardinality({x \in PlacesOf(p.shortcuts) : p.shortcuts[x[1]][x[2]] = o})
LeftoverEntries(p, o) == Cardinality({i \in 1..Len(p.leftovers) : p.leftovers[i].file_idx = o})
BadfilterEntries(p, o) == Cardinality({h \in DOMAIN p.badfilter : p.badfilter[h] = o})
PrimaryEntries(p, o) ==
  UniqueEntries(p, o) + DomainsEntries(p, o) + ShortcutEntries(p, o) + LeftoverEntries(p, o)

\* every offset some table of the index holds
TableOffsets(p) ==
  {p.unique_domains[h] : h \in DOMAIN p.unique_domains}
    \cup {p.domains[x[1]][x[2]] : x \in PlacesOf(p.domains)}
    \cup {p.shortcuts[x[1]][x[2]] : x \in PlacesOf(p.shortcuts)}
    \cup {p.leftovers[i].file_idx : i \in 1..Len(p.leftovers)}
    \cup {p.badfilter[h] : h \in DOMAIN p.badfilter}

IsBadfilterRule(rule) == rule.content = "adblock" /\ "BADFILTER" \in rule.props

\* the key of a badfilter rule in the badfilter table
BadfilterKey(rule) == hash(get_text_without_badfilter(rule.text))

\* C4 as the claim states it: one entry per rule
OneEntry(p, o, rule) ==
  IF IsBadfilterRule(rule) THEN BadfilterEntries(p, o) = 1 ELSE PrimaryEntries(p, o) = 1

\* a later loaded line is a badfilter rule of the same key as rule
ReplacedLater(p, k, rule) ==
  \E j \in (k + 1)..Len(p.inserted) :
    /\ IsBadfilterRule(parse(p.inserted[j][2]))
    /\ BadfilterKey(parse(p.inserted[j][2])) = BadfilterKey(rule)

\* the entries of the k-th loaded line, by the kind of its rule
EntriesByKind(p, k, o, rule) ==
  IF IsBadfilterRule(rule)
  THEN /\ PrimaryEntries(p, o) = 0
       /\ IF ReplacedLater(p, k, rule) THEN BadfilterEntries(p, o) = 0
          ELSE BadfilterEntries(p, o) = 1 /\ p.badfilter[BadfilterKey(rule)] = o
  ELSE IF rule.match_method \in {"EXACT", "SUBDOMAINS"}
  THEN /\ UniqueEntries(p, o) + DomainsEntries(p, o) = Len(rule.matching_parts)
       /\ ShortcutEntries(p, o) + LeftoverEntries(p, o) = 0
       /\ BadfilterEntries(p, o) = 0
  ELSE /\ UniqueEntries(p, o) + DomainsEntries(p, o) = 0
       /\ ShortcutEntries(p, o) + LeftoverEntries(p, o) = 1
       /\ BadfilterEntries(p, o) = 0

\* C4 (as stated): after load, every loaded rule that is not a badfilter rule
\* has exactly one entry over unique_domains, domains, shortcuts and
\* leftovers that points at its line, and every loaded badfilter rule has one
\* entry in the badfilter table.
C4_OneEntryPerRule ==
  state = "loaded" =>
    \A k \in 1..Len(f.pimpl.inserted) :
      OneEntry(f.pimpl, f.pimpl.inserted[k][1], parse(f.pimpl.inserted[k][2]))

\* C4 (amended): after load, the entries of a loaded rule are in one family
\* of tables only.  A rule matched by EXACT or SUBDOMAINS has one entry per
\* matching part in unique_domains or domains (a hosts line that names two
\* domains has two), any other rule that is not a badfilter rule has exactly
\* one entry, in shortcuts or in leftovers, and a badfilter rule has no
\* primary entry and holds the entry of its key in the badfilter table
\* unless a later badfilter rule of the same key took it.
C4_EntriesPerRule ==
  state = "loaded" =>
    \A k \in 1..Len(f.pimpl.inserted) :
      EntriesByKind(f.pimpl, k, f.pimpl.inserted[k][1], parse(f.pimpl.inserted[k][2]))

\* a hosts line with two names, a shortcut-free pattern and two badfilter
\* rules of one key are loaded
C4_Witness ==
  /\ state = "loaded"
  /\ \E k \in 1..Len(f.pimpl.inserted) :
       f.pimpl.inserted[k][2] = "0.0.0.0 ads.example.org example.org"
  /\ \E k \in 1..Len(f.pimpl.inserted) : f.pimpl.inserted[k][2] = "ex*.org"
  /\ Cardinality({k \in 1..Len(f.pimpl.inserted) :
                    f.pimpl.inserted[k][2] = "example.org$badfilter"}) = 2

\* C5: no hash is a key of both unique_domains and domains.
C5_DisjointDomainTables ==
  (DOMAIN f.pimpl.unique_domains) \cap (DOMAIN f.pimpl.domains) = {}

\* a load promoted a hash to domains and left another in unique_domains
C5_Witness ==
  /\ state = "loaded"
  /\ DOMAIN f.pimpl.domains # {}
  /\ DOMAIN f.pimpl.unique_domains # {}
  /\ \E h \in DOMAIN f.pimpl.domains : Len(f.pimpl.domains[h]) >= 3

\* the load stopped at the rule line after the loaded ones, which would have
\* brought the usage above the limit, and no table holds a later line
StoppedAtLimit(p, limit, rules) ==
  /\ limit # 0
  /\ Len(p.stopped) = 1
  /\ Len(p.inserted) < Len(rules)
  /\ p.inserted = SubSeq(rules, 1, Len(p.inserted))
  /\ p.stopped[1][1] = rules[Len(p.inserted) + 1][1]
  /\ p.approx_mem + p.stopped[1][2] > limit
  /\ TableOffsets(p) \subseteq {rules[j][1] : j \in 1..(Len(p.inserted) + 1)}

\* C6: a load under a non-zero mem_limit never accounts more than the limit;
\* it returns LR_MEM_LIMIT_REACHED exactly when it stopped at the first rule
\* that would have brought the usage above the limit, and then no later line
\* of the source is in the index; otherwise it loaded every rule line.  Under
\* mem_limit 0 it never returns LR_MEM_LIMIT_REACHED.
C6_MemoryBudget ==
  state = "loaded" =>
    /\ last_load.mem_limit # 0 => f.pimpl.approx_mem <= last_load.mem_limit
    /\ last_load.mem_limit = 0 => last_load.result = "LR_OK"
    /\ last_load.result = "LR_OK" =>
         f.pimpl.inserted = RuleLines /\ f.pimpl.stopped = <<>>
    /\ last_load.result = "LR_MEM_LIMIT_REACHED" =>
         StoppedAtLimit(f.pimpl, last_load.mem_limit, RuleLines)
    /\ last_load.result \in {"LR_OK", "LR_MEM_LIMIT_REACHED"}

\* a load stopped after a loaded rule, with two more rule lines to go
C6_Witness ==
  /\ state = "loaded"
  /\ last_load.result = "LR_MEM_LIMIT_REACHED"
  /\ Len(f.pimpl.inserted) >= 1
  /\ Len(RuleLines) >= Len(f.pimpl.inserted) + 2

(***************************************************************************)
(* Queries alone: a rule list is loaded without a budget and queried.      *)
(* The lists are drawn from five master lists: rules annulled by badfilter *)
(* rules, patterns and regular expressions, the dnstype and dnsrewrite     *)
(* modifiers, two rule texts of one hash, and rules of every precedence.   *)
(***************************************************************************)
BADFILTER_RULES ==
  <<"example.org", "||example.org^", "example.org$badfilter", "||example.org^$badfilter">>
PATTERN_RULES ==
  <<"/^(www\\.)?example\\.org$/", "ex*.org", "||ex*mple.org^", "|sub.example.org|">>
MODIFIER_RULES ==
  <<"example.com$dnstype=A|AAAA", "example.com$dnsrewrite=1.2.3.4,dnstype=MX",
    "example.com$dnsrewrite=1.2.3.4", "example.com$dnstype=~A">>
\* hash("mzf.com") = hash("prfl.com$dnstype=A")
COLLIDING_RULES == <<"mzf.com", "prfl.com$dnstype=A,badfilter", "prfl.com$dnstype=A">>
PRECEDENCE_RULES ==
  <<"@@example.org$important", "example.org$important", "@@||example.org^",
    "0.0.0.0 example.org", "example.org$important,badfilter", "||example.org^">>

MatchLists ==
  ListsOf(BADFILTER_RULES) \cup ListsOf(PATTERN_RULES) \cup ListsOf(MODIFIER_RULES)
    \cup ListsOf(COLLIDING_RULES) \cup ListsOf(PRECEDENCE_RULES)
MatchHosts == {"example.org", "sub.example.org", "example.com", "mzf.com"}
MatchTypes == {"A", "AAAA", "MX"}

InitMatch == \E data \in MatchLists : Constructed(data, 0)

NextMatch ==
  \/ LoadFile
  \/ \E domain \in MatchHosts, rr_type \in MatchTypes : Match(domain, rr_type)
  \/ DropContext

SpecMatch == InitMatch /\ [][NextMatch]_vars

(***************************************************************************)
(* Properties of a query.                                                  *)
(***************************************************************************)
\* the texts of the rules in matched_rules
MatchedTexts == {ctx.matched_rules[k].text : k \in 1..Len(ctx.matched_rules)}

\* the rules the filter loaded
LoadedRules == {parse(f.pimpl.inserted[k][2]) : k \in 1..Len(f.pimpl.inserted)}

\* the modifiers of the rule and its pattern accept the query of the context
Accepts(rule, c) ==
  /\ rule.content = "adblock" => match_adblock_modifiers(rule, c) # "AMMS_NOT_MATCHED"
  /\ match_pattern(rule, c.host, c.subdomains)

\* C1 (as stated): after a query, every loaded rule that is not a badfilter
\* rule and whose modifiers and pattern accept the context of the query is in
\* matched_rules.
C1_LookupSoundness ==
  pc = "matched" =>
    \A rule \in LoadedRules :
      (~IsBadfilterRule(rule) /\ Accepts(rule, ctx)) => rule.text \in MatchedTexts

\* C2 (as stated): after a query, for every loaded rule R and loaded
\* badfilter rule B whose text without the modifier is the text of R, if R is
\* in matched_rules then so is B.
C2_BadfilterSymmetry ==
  pc = "matched" =>
    \A rule \in LoadedRules, b \in LoadedRules :
      (/\ IsBadfilterRule(b)
       /\ get_text_without_badfilter(b.text) = rule.text
       /\ rule.text \in MatchedTexts) => b.text \in MatchedTexts

\* the tier of a rule: 4 important exception, 3 important block,
\* 2 exception, 1 block (a hosts rule is a block)
TierOf(r) ==
  CASE r.content = "hosts" -> 1
    [] r.content # "hosts" /\ {"IMPORTANT", "EXCEPTION"} \subseteq r.props -> 4
    [] r.content # "hosts" /\ "IMPORTANT" \in r.props /\ "EXCEPTION" \notin r.props -> 3
    [] r.content # "hosts" /\ "IMPORTANT" \notin r.props /\ "EXCEPTION" \in r.props -> 2
    [] OTHER -> 1

\* the places of the rules of the accumulator that are neither badfilter
\* rules nor annulled by one
LivePlaces(rules) ==
  {k \in 1..Len(rules) :
     /\ "BADFILTER" \notin rules[k].props
     /\ ~\E j \in 1..Len(rules) :
          /\ "BADFILTER" \in rules[j].props
          /\ get_text_without_badfilter(rules[j].text) = rules[k].text}

\* the places of the live rules of the highest tier that is not empty
TopPlaces(rules, live) ==
  {k \in live : \A j \in live : TierOf(rules[k]) >= TierOf(rules[j])}

\* the rule the claim names for rules whose live places are `live`
ChosenRule(rules, live) ==
  IF live = {} THEN NoRule ELSE rules[LastOf(TopPlaces(rules, live))]

DnstypeAccepts(rule, rr_type) ==
  IF rule.dnstype.mode = "ENABLE" THEN SeqContains(rule.dnstype.types, rr_type)
  ELSE ~SeqContains(rule.dnstype.types, rr_type)

\* the rule of the example of C9 is loaded and the query is for its domain
DnstypeExample ==
  /\ pc = "matched"
  /\ ctx.host = "example.com"
  /\ \E k \in 1..Len(f.pimpl.inserted) : f.pimpl.inserted[k][2] = "example.com$dnstype=A|AAAA"

RewriteAgrees(rrtype, rr_type) ==
  CASE rrtype = "A" -> rr_type = "A"
    [] rrtype = "AAAA" -> rr_type = "AAAA"
    [] rrtype = "PTR" -> rr_type = "PTR"
    [] rrtype = "CNAME" -> rr_type \in {"A", "AAAA"}
    [] OTHER -> TRUE

\* the rule has a dnsrewrite modifier whose record type the query disagrees with
RewriteRejects(rule, rr_type) ==
  /\ "DNSREWRITE" \in rule.props
  /\ rule.dnsrewrite # NoValue
  /\ ~RewriteAgrees(rule.dnsrewrite.rrtype, rr_type)

\* C10 (as stated): no rule with a dnsrewrite modifier of record type A,
\* AAAA, PTR or CNAME is in matched_rules after a query whose type does not
\* agree with it, whatever other modifiers the rule has.
C10_DnsrewriteAnyModifiers ==
  pc = "matched" =>
    \A k \in 1..Len(ctx.matched_rules) :
      ~RewriteRejects(parse(ctx.matched_rules[k].text), ctx.rr_type)

(***************************************************************************)
(* Properties of the life of a filter.                                     *)
(***************************************************************************)
\* C7 (as stated): a query on a file-backed filter whose file has another
\* modification time than the one load recorded returns false and leaves
\* matched_rules empty.
C7_OutdatedShortCircuit ==
  (pc = "matched" /\ ~f.params.in_memory /\ fs.mtime # f.params.mtime) =>
    (match_ret = FALSE /\ ctx.matched_rules = <<>>)

\* C8 (as stated): the reload of filter::update uses no more than the budget
\* update restored, so that the subtraction leaves the budget at the
\* difference, not wrapped.
C8_UpdateWithinBudget ==
  last_load.caller = "update" =>
    /\ last_load.mem <= last_load.mem_limit
    /\ mem_limit = last_load.mem_limit - last_load.mem

(***************************************************************************)
(* Reading a file line by line: ag::file::for_each_line on every file of a *)
(* few bytes, with an action that records its calls and returns true.      *)
(***************************************************************************)
MaxFileSize == 5

\* a letter, a blank and the two line terminators
ReaderBytes == {"a", " ", "\n", "\r"}

RECURSIVE FilesOfSize(_)
FilesOfSize(n) ==
  IF n = 0 THEN {""} ELSE {d \o c : d \in FilesOfSize(n - 1), c \in ReaderBytes}

ReaderFiles == UNION {FilesOfSize(n) : n \in 0..MaxFileSize}

\* for_each_line(f, action, arg) with an action that appends its arguments
\* to arg and returns true
ForEachLine ==
  /\ fs.exists
  /\ reader' = [called |-> TRUE, calls |-> for_each_line(fs.data)]
  /\ UNCHANGED <<fs, clock, f, state, mem_limit, last_load, ctx, match_ret, pc, probe, forwarder_vars>>

InitLines == \E data \in ReaderFiles : Constructed(data, 0)

NextLines == ForEachLine

SpecLines == InitLines /\ [][NextLines]_vars

\* the byte at offset p (counted from 0) ends a line
IsTerminator(data, p) == Ch(data, p + 1) \in {"\r", "\n"}

\* the offsets at which a non-empty line of the file starts
LineStarts(data) ==
  {p \in 0..(Len(data) - 1) :
     ~IsTerminator(data, p) /\ (p = 0 \/ IsTerminator(data, p - 1))}

\* the bytes of the line that starts at offset p
LineAt(data, p) ==
  SubSeq(data, p + 1,
         FirstOf({e \in p..Len(data) : e = Len(data) \/ IsTerminator(data, e)}))

\* the calls the action got with offset p
CallsAt(p) == {k \in 1..Len(reader.calls) : reader.calls[k][1] = p}

\* the line at offset p was handed to the action once, trimmed
CalledOnce(data, p) ==
  /\ Cardinality(CallsAt(p)) = 1
  /\ \A k \in CallsAt(p) : reader.calls[k][2] = trim(LineAt(data, p))

\* the last line of the file is one byte long and no terminator follows it
OneByteTail(data, p) == p = Len(data) - 1

\* C20 (as stated): for_each_line calls the action exactly once, with the
\* starting offset and the trimmed text, for every non-empty line of the
\* file, with or without a trailing newline and whatever the length of the
\* last line.
C20_EveryLineOnce ==
  reader.called => \A p \in LineStarts(fs.data) : CalledOnce(fs.data, p)

\* what the loop does do: every non-empty line but a last line of one byte
\* without a terminator is handed over once, and that one never
C20_AllButOneByteTail ==
  reader.called =>
    \A p \in LineStarts(fs.data) :
      IF OneByteTail(fs.data, p) THEN CallsAt(p) = {} ELSE CalledOnce(fs.data, p)

\* a file whose last line is one byte long was read
C20_Witness ==
  /\ reader.called
  /\ \E p \in LineStarts(fs.data) : OneByteTail(fs.data, p) /\ p > 0

(***************************************************************************)
(* The forwarder (dns_forwarder.h).  A request is [id, peer, name, qtype,  *)
(* qclass, cd, do_bit]: peer is "" when handle_message gets no             *)
(* dns_message_info.  A resource record is [type, value, ttl], a response  *)
(* is [rcode, answer, authority].  An upstream id of 0 stands for          *)
(* std::nullopt.                                                           *)
(***************************************************************************)
NoResponse == [rcode |-> "NONE", answer |-> <<>>, authority |-> <<>>]

\* cached_response: the entry of no key
NoEntry == [key |-> <<>>, response |-> NoResponse, expires_at |-> 0, upstream_id |-> 0,
            inserted_at |-> 0]

\* the ids the tests give the upstream and the fallback
UPSTREAM_ID == 42
FALLBACK_ID == 4242

\* upstream::exchange_result of a timed-out exchange
TIMEOUT_STR == "Request timed out"

\* the seconds within which the detector takes an equal message of the same
\* peer for a retransmission
RETRANSMISSION_WINDOW == 2

\* the TTL of the records the forwarder synthesizes
BLOCKED_RESPONSE_TTL == 3

\* dnsproxy_settings::get_default, as far as the forwarder of the model reads
\* them, with the one upstream that make_dnsproxy_settings sets
DefaultSettings ==
  [initialized |-> TRUE, dns_cache_size |-> 1, optimistic_cache |-> FALSE,
   adblock_rules_blocking_mode |-> "REFUSED", hosts_rules_blocking_mode |-> "ADDRESS",
   custom_blocking_ipv4 |-> "", custom_blocking_ipv6 |-> "",
   upstreams |-> <<UPSTREAM_ID>>, fallbacks |-> <<>>, fallback_domains |-> {}]

\* dns_forwarder::init accepts the settings: a custom blocking address is
\* empty or an address of its family
init_accepts(s) ==
  /\ s.custom_blocking_ipv4 = "" \/ is_valid_ip4(s.custom_blocking_ipv4)
  /\ s.custom_blocking_ipv6 = "" \/ is_valid_ip6(s.custom_blocking_ipv6)
  /\ s.upstreams # <<>>

\* the filter of the forwarder, loaded from the rule text of filter_params
LoadedFilter(rules) ==
  load([params |-> NoParams, pimpl |-> NewImpl], [data |-> rules, in_memory |-> TRUE], 0, NoFile)

\* the state after dns_forwarder::init(s, events) returned true, with one
\* in-memory filter list
Initialized(s, rules) ==
  /\ init_accepts(s)
  /\ fs = NoFile
  /\ clock = 1
  /\ f = [params |-> LoadedFilter(rules).params, pimpl |-> LoadedFilter(rules).pimpl]
  /\ state = "loaded"
  /\ mem_limit = 0
  /\ last_load = NoLoad
  /\ ctx = NoContext
  /\ match_ret = TRUE
  /\ pc = "idle"
  /\ reader = NoLines
  /\ probe = NoProbe
  /\ settings = s
  /\ now = 0
  /\ response_cache = <<>>
  /\ requests = <<>>
  /\ async_reqs = {}
  /\ events = <<>>

(***************************************************************************)
(* The response cache: lru_cache<std::string, cached_response>, the most   *)
(* recently used entry first.  inserted_at is a history field.             *)
(***************************************************************************)
\* a key that leaves the DO flag out
get_cache_key_without_do(request) ==
  <<to_lower(request.name), request.qclass, request.qtype, request.cd>>

\* the key of a request: the lowercased name, the class, the type and the
\* CD and DO flags
get_cache_key(request) ==
  <<to_lower(request.name), request.qclass, request.qtype, request.cd, request.do_bit>>

\* the smallest TTL of the records
MinTTL(rrs) == FirstOf({rrs[k].ttl : k \in 1..Len(rrs)})

\* the response with every TTL given by ttl_of
WithTTLs(response, ttl_of(_)) ==
  [response EXCEPT
     !.answer = [k \in 1..Len(@) |-> [@[k] EXCEPT !.ttl = ttl_of(@)]],
     !.authority = [k \in 1..Len(@) |-> [@[k] EXCEPT !.ttl = ttl_of(@)]]]

\* the place of the key in the cache, 0 if it has no entry
CacheFind(cache, key) == FirstOf({k \in 1..Len(cache) : cache[k].key = key})

\* a get that leaves the order of the entries alone
MakeLru_unmoved(cache, k) == cache

\* lru_cache::get makes the entry it returns the most recently used
MakeLru(cache, k) ==
  <<cache[k]>> \o SubSeq(cache, 1, k - 1) \o SubSeq(cache, k + 1, Len(cache))

CacheMiss(cache) ==
  [hit |-> FALSE, response |-> NoResponse, upstream_id |-> 0, expired |-> FALSE,
   entry |-> NoEntry, cache |-> cache]

\* a cache_result with the TTLs the entry was inserted with
CacheHit_unaged(cache, k, t, expired) ==
  [hit |-> TRUE,
   response |-> IF expired THEN WithTTLs(cache[k].response, LAMBDA ttl : 1)
                ELSE cache[k].response,
   upstream_id |-> cache[k].upstream_id, expired |-> expired,
   entry |-> cache[k], cache |-> MakeLru(cache, k)]

\* the cache_result for the entry at place k at time t
CacheHit(cache, k, t, expired) ==
  [hit |-> TRUE,
   response |-> IF expired THEN WithTTLs(cache[k].response, LAMBDA ttl : 1)
                ELSE WithTTLs(cache[k].response,
                              LAMBDA ttl : ttl - (t - (cache[k].expires_at
                                                        - MinTTL(cache[k].response.answer)))),
   upstream_id |-> cache[k].upstream_id, expired |-> expired,
   entry |-> cache[k], cache |-> MakeLru(cache, k)]

\* a lookup that serves expired entries whatever the settings say
create_response_from_cache_stale(cache, key, t, s) ==
  IF s.dns_cache_size = 0 \/ CacheFind(cache, key) = 0 THEN CacheMiss(cache)
  ELSE CacheHit(cache, CacheFind(cache, key), t, t >= cache[CacheFind(cache, key)].expires_at)

\* dns_forwarder::create_response_from_cache at time t under settings s
create_response_from_cache(cache, key, t, s) ==
  IF s.dns_cache_size = 0 \/ CacheFind(cache, key) = 0 THEN CacheMiss(cache)
  ELSE IF t < cache[CacheFind(cache, key)].expires_at
  THEN CacheHit(cache, CacheFind(cache, key), t, FALSE)
  ELSE IF s.optimistic_cache THEN CacheHit(cache, CacheFind(cache, key), t, TRUE)
  ELSE CacheMiss(cache)

\* a response the cache takes: an upstream's success with an answer
is_cacheable(response) == response.rcode = "NOERROR" /\ response.answer # <<>>

\* the cache without the entry of the key
CacheErase(cache, key) == SelectSeq(cache, LAMBDA e : e.key # key)

\* lru_cache::insert: the new entry is the most recently used one, and the
\* least recently used entries beyond the capacity are evicted
lru_insert(cache, e, capacity) ==
  SubSeq(<<e>> \o CacheErase(cache, e.key), 1,
         IF Len(CacheErase(cache, e.key)) + 1 > capacity THEN capacity
         ELSE Len(CacheErase(cache, e.key)) + 1)

\* dns_forwarder::put_response_into_cache at time t under settings s
put_response_into_cache(cache, key, response, upstream_id, t, s) ==
  IF s.dns_cache_size = 0 \/ ~is_cacheable(response) THEN cache
  ELSE lru_insert(cache,
                  [key |-> key, response |-> response,
                   expires_at |-> t + MinTTL(response.answer),
                   upstream_id |-> upstream_id, inserted_at |-> t],
                  s.dns_cache_size)

(***************************************************************************)
(* The question filter and the response rewriter.                          *)
(***************************************************************************)
\* the rules the filter matches for the name and the type of the question
question_rules(name, qtype) ==
  match(f, fs, create_match_context(name, qtype), {}).ctx.matched_rules

\* the effective rules of the matched ones: the rule get_effective_rule
\* chooses, and with a hosts rule every other hosts rule matched
effective_rules(rules) ==
  IF get_effective_rule(rules) = NoRule THEN <<>>
  ELSE IF get_effective_rule(rules).content = "hosts"
  THEN SelectSeq(rules, LAMBDA r : r.content = "hosts")
  ELSE <<get_effective_rule(rules)>>

\* the address of a hosts rule, "" for an adblock rule
rule_ip(r) == parse(r.text).ip

\* the dnsrewrite_info of an adblock rule, NoValue if it has none
rule_dnsrewrite(r) == parse(r.text).dnsrewrite

\* the record type of an address
ip_rr_type(ip) == IF is_valid_ip4(ip) THEN "A" ELSE "AAAA"

\* a loopback or unspecified address: a hosts rule with it blocks
is_blocking_ip(ip) == ip \in {"0.0.0.0", "127.0.0.1", "::", "::1"}

\* the hosts rule carries an address of its own
has_specific_ip(r) == r.content = "hosts" /\ ~is_blocking_ip(rule_ip(r))

\* the effective rules rewrite the question to a canonical name
is_cname_rewrite(rules) ==
  /\ rules # <<>>
  /\ "EXCEPTION" \notin rules[1].props
  /\ "DNSREWRITE" \in rules[1].props
  /\ rule_dnsrewrite(rules[1]).rrtype = "CNAME"

\* blocking by adblock rules only: hosts rules let the question through
is_blocking_adblock(rules) ==
  /\ rules # <<>>
  /\ rules[1].content = "adblock"
  /\ "EXCEPTION" \notin rules[1].props
  /\ ~is_cname_rewrite(rules)

\* the effective rules block the question: the response is synthesized
is_blocking(rules) ==
  /\ rules # <<>>
  /\ "EXCEPTION" \notin rules[1].props
  /\ ~is_cname_rewrite(rules)

RR(type, value, ttl) == [type |-> type, value |-> value, ttl |-> ttl]

\* the SOA record of a synthesized response
create_soa(request) == RR("SOA", to_lower(request.name), BLOCKED_RESPONSE_TTL)

create_refused_response(request) ==
  [rcode |-> "REFUSED", answer |-> <<>>, authority |-> <<>>]

create_nxdomain_response(request) ==
  [rcode |-> "NXDOMAIN", answer |-> <<>>, authority |-> <<create_soa(request)>>]

create_soa_response(request) ==
  [rcode |-> "NOERROR", answer |-> <<>>, authority |-> <<create_soa(request)>>]

\* a response of address records of the type of the question
create_address_response(request, ips) ==
  [rcode |-> "NOERROR",
   answer |-> [k \in 1..Len(ips) |-> RR(request.qtype, ips[k], BLOCKED_RESPONSE_TTL)],
   authority |-> <<>>]

\* blocking mode ADDRESS with the unspecified address whenever the family
\* of the question has no custom address
create_address_or_unspecified_response(request, s) ==
  IF request.qtype = "A"
  THEN create_address_response(request, <<IF s.custom_blocking_ipv4 # ""
                                          THEN s.custom_blocking_ipv4 ELSE "0.0.0.0">>)
  ELSE IF request.qtype = "AAAA"
  THEN create_address_response(request, <<IF s.custom_blocking_ipv6 # ""
                                          THEN s.custom_blocking_ipv6 ELSE "::">>)
  ELSE create_soa_response(request)

\* blocking mode ADDRESS: the custom address of the family of the question,
\* the unspecified address when no custom address is configured at all, a
\* SOA otherwise
create_address_or_soa_response(request, s) ==
  IF request.qtype = "A" /\ s.custom_blocking_ipv4 # ""
  THEN create_address_response(request, <<s.custom_blocking_ipv4>>)
  ELSE IF request.qtype = "AAAA" /\ s.custom_blocking_ipv6 # ""
  THEN create_address_response(request, <<s.custom_blocking_ipv6>>)
  ELSE IF s.custom_blocking_ipv4 = "" /\ s.custom_blocking_ipv6 = "" /\ request.qtype = "A"
  THEN create_address_response(request, <<"0.0.0.0">>)
  ELSE IF s.custom_blocking_ipv4 = "" /\ s.custom_blocking_ipv6 = "" /\ request.qtype = "AAAA"
  THEN create_address_response(request, <<"::">>)
  ELSE create_soa_response(request)

\* the response of a blocking mode
create_response_by_mode(request, mode, s) ==
  IF mode = "REFUSED" THEN create_refused_response(request)
  ELSE IF mode = "NXDOMAIN" THEN create_nxdomain_response(request)
  ELSE create_address_or_soa_response(request, s)

\* the addresses of the hosts rules that are of the type of the question
rule_ips(request, rules) ==
  [k \in 1..Len(SelectSeq(rules, LAMBDA r : ip_rr_type(rule_ip(r)) = request.qtype)) |->
     rule_ip(SelectSeq(rules, LAMBDA r : ip_rr_type(rule_ip(r)) = request.qtype)[k])]

\* hosts rules with addresses of their own: the addresses of the family
\* asked for, a SOA if there is none
create_response_with_ips(request, rules) ==
  IF rule_ips(request, rules) = <<>> THEN create_soa_response(request)
  ELSE create_address_response(request, rule_ips(request, rules))

\* a dnsrewrite rule that gives a record or a response code
create_rewritten_response(request, info) ==
  [rcode |-> info.rcode,
   answer |-> IF info.rrtype = "0" THEN <<>>
              ELSE <<RR(info.rrtype, info.value, BLOCKED_RESPONSE_TTL)>>,
   authority |-> <<>>]

\* a synthesized response that follows the blocking mode also for hosts
\* rules with addresses of their own
create_blocking_response_by_mode(request, rules, s) ==
  IF "DNSREWRITE" \in rules[1].props
  THEN create_rewritten_response(request, rule_dnsrewrite(rules[1]))
  ELSE IF rules[1].content = "adblock"
  THEN create_response_by_mode(request, s.adblock_rules_blocking_mode, s)
  ELSE create_response_by_mode(request, s.hosts_rules_blocking_mode, s)

\* the response synthesized for a question that the effective rules block
create_blocking_response(request, rules, s) ==
  IF "DNSREWRITE" \in rules[1].props
  THEN create_rewritten_response(request, rule_dnsrewrite(rules[1]))
  ELSE IF rules[1].content = "adblock"
  THEN create_response_by_mode(request, s.adblock_rules_blocking_mode, s)
  ELSE IF SelectSeq(rules, has_specific_ip) # <<>>
  THEN create_response_with_ips(request, SelectSeq(rules, has_specific_ip))
  ELSE create_response_by_mode(request, s.hosts_rules_blocking_mode, s)

(***************************************************************************)
(* Handling a message.  The state of a handling is [request, key, seq, at, *)
(* background, stage, path, ...]: stage is the state of the request in the *)
(* forwarder's state machine and path the states it went through; seq and  *)
(* at are the number and the time of the arrival.  A background handling   *)
(* is the refresh of an expired entry that was served.  checked_at is the  *)
(* time of the cache lookup and entry the cache entry the handling was     *)
(* answered from or inserted: both are history fields.  Response rules,    *)
(* DNS64, DNSSEC stripping and truncation are outside the model: the       *)
(* answer of an upstream goes to the client as it came.                    *)
(***************************************************************************)
filter_vars == <<fs, clock, f, state, mem_limit, last_load, ctx, match_ret, pc, reader, probe>>

\* upstream::exchange_result
ExchangeOk(packet) == [packet |-> packet, error |-> ""]
ExchangeError(error) == [packet |-> NoResponse, error |-> error]

\* the exchange gave no usable response
exchange_failed(result) == result.error # "" \/ result.packet.rcode = "SERVFAIL"

NoExchange == ExchangeError("none")

\* what an upstream does with a request: it answers with records of the
\* given TTLs, answers SERVFAIL, fails or times out
Outcome(kind, ttls) == [kind |-> kind, ttls |-> ttls]

\* upstream::exchange(request) with the given outcome
exchange(request, outcome) ==
  IF outcome.kind = "ok"
  THEN ExchangeOk([rcode |-> "NOERROR",
                   answer |-> [k \in 1..Len(outcome.ttls) |->
                                 [type |-> request.qtype, value |-> "192.0.2.1",
                                  ttl |-> outcome.ttls[k]]],
                   authority |-> <<>>])
  ELSE IF outcome.kind = "servfail"
  THEN ExchangeOk([rcode |-> "SERVFAIL", answer |-> <<>>, authority |-> <<>>])
  ELSE IF outcome.kind = "timeout" THEN ExchangeError(TIMEOUT_STR)
  ELSE ExchangeError("exchange failed")

NewHandling(request, seq, t, background) ==
  [request |-> request, key |-> get_cache_key(request), seq |-> seq, at |-> t,
   background |-> background,
   stage |-> IF background THEN "CacheChecked" ELSE "Decoded",
   path |-> IF background THEN <<"CacheChecked">> ELSE <<"Decoded">>,
   fallback_only |-> FALSE, leader |-> background, waiting |-> FALSE, reused |-> FALSE,
   cache_hit |-> FALSE, expired |-> FALSE, entry |-> NoEntry, checked_at |-> t,
   rules |-> <<>>, cname |-> "", primary |-> NoExchange, fallback |-> NoExchange,
   response |-> NoResponse, upstream_id |-> 0]

\* the handling in its next state
Enter(h, stage) == [h EXCEPT !.stage = stage, !.path = Append(@, stage)]

\* the messages that arrived so far
Arrived == Len(events) + Cardinality({k \in DOMAIN requests : ~requests[k].background})

\* the first free place for a handling
FreeSlot == FirstOf({k \in 1..(Cardinality(DOMAIN requests) + 1) : k \notin DOMAIN requests})

\* every handling, finished or not
Handlings == {events[k] : k \in 1..Len(events)} \cup {requests[k] : k \in DOMAIN requests}

\* the retransmission detector: an equal message of the same peer arrived
\* within the window
is_retransmission(h) ==
  /\ h.request.peer # ""
  /\ \E r \in Handlings :
       r.request = h.request /\ r.seq < h.seq /\ h.at - r.at < RETRANSMISSION_WINDOW

RECURSIVE GlobFrom(_, _, _, _)
\* the pattern from place i matches the host from place j; * stands for any
\* bytes
GlobFrom(pattern, i, host, j) ==
  IF i > Len(pattern) THEN j > Len(host)
  ELSE IF Ch(pattern, i) = "*"
  THEN \E k \in j..(Len(host) + 1) : GlobFrom(pattern, i + 1, host, k)
  ELSE j <= Len(host) /\ Ch(pattern, i) = Ch(host, j) /\ GlobFrom(pattern, i + 1, host, j + 1)

\* a fallback filter that takes the subdomains of a fallback domain too
apply_fallback_filter_subdomains(hostname, s) ==
  \E pattern \in s.fallback_domains :
    GlobFrom(pattern, 1, hostname, 1) \/ GlobFrom("*." \o pattern, 1, hostname, 1)

\* dns_forwarder::apply_fallback_filter: the host matches a fallback domain
apply_fallback_filter(hostname, s) ==
  \E pattern \in s.fallback_domains : GlobFrom(pattern, 1, hostname, 1)

\* the name the handling resolves: the canonical name if the question was
\* rewritten
normalized_domain(h) == IF h.cname # "" THEN h.cname ELSE to_lower(h.request.name)

\* do_upstream_exchange leaves the upstreams out
use_fallbacks_first(h, s) ==
  /\ s.fallbacks # <<>>
  /\ h.fallback_only \/ apply_fallback_filter(normalized_domain(h), s)

\* handle_message(message, info): a message arrives and is decoded; at most
\* `limit` messages arrive, and `workers` of them are handled at a time
handle_message(request, limit, workers) ==
  /\ settings.initialized
  /\ Arrived < limit
  /\ Cardinality({k \in DOMAIN requests : ~requests[k].background}) < workers
  /\ requests' = requests @@ (FreeSlot :> NewHandling(request, Arrived + 1, now, FALSE))
  /\ UNCHANGED <<filter_vars, settings, now, response_cache, async_reqs, events>>

\* Decoded -> RetxChecked
check_retransmission(slot) ==
  /\ slot \in DOMAIN requests
  /\ requests[slot].stage = "Decoded"
  /\ requests' = [requests EXCEPT ![slot] =
       Enter([@ EXCEPT !.fallback_only = is_retransmission(requests[slot])], "RetxChecked")]
  /\ UNCHANGED <<filter_vars, settings, now, response_cache, async_reqs, events>>

\* the handling after create_response_from_cache returned r
WithCacheResult(h, r, in_flight) ==
  Enter([h EXCEPT !.cache_hit = r.hit, !.expired = r.expired, !.entry = r.entry,
                  !.checked_at = now,
                  !.response = r.response, !.upstream_id = r.upstream_id,
                  !.waiting = ~r.hit /\ in_flight,
                  !.leader = ~r.hit /\ ~in_flight],
        "CacheChecked")

\* a lookup after which every handling that misses resolves its key
\* itself
LookedUp_alone(slot, h, r) ==
  /\ response_cache' = r.cache
  /\ requests' =
       IF r.hit /\ r.expired
       THEN [requests EXCEPT ![slot] = WithCacheResult(h, r, FALSE)]
              @@ (FreeSlot :> NewHandling(h.request, h.seq, now, TRUE))
       ELSE [requests EXCEPT ![slot] = WithCacheResult(h, r, FALSE)]
  /\ async_reqs' = IF r.hit /\ ~r.expired THEN async_reqs ELSE async_reqs \cup {h.key}

\* RetxChecked -> CacheChecked: the response comes from the cache, or the
\* handling waits for the resolution of its key that is in flight, or it
\* becomes that resolution; an expired entry that is served is refreshed in
\* the background
LookedUp(slot, h, r) ==
  /\ response_cache' = r.cache
  /\ requests' =
       IF r.hit /\ r.expired /\ h.key \notin async_reqs
       THEN [requests EXCEPT ![slot] = WithCacheResult(h, r, FALSE)]
              @@ (FreeSlot :> NewHandling(h.request, h.seq, now, TRUE))
       ELSE [requests EXCEPT ![slot] = WithCacheResult(h, r, h.key \in async_reqs)]
  /\ async_reqs' = IF r.hit /\ ~r.expired THEN async_reqs ELSE async_reqs \cup {h.key}

check_cache(slot) ==
  /\ slot \in DOMAIN requests
  /\ requests[slot].stage = "RetxChecked"
  /\ LookedUp(slot, requests[slot],
              create_response_from_cache(response_cache, requests[slot].key, now, settings))
  /\ UNCHANGED <<filter_vars, settings, now, events>>

\* the handling resolves its key itself
Resolves(h) == h.leader /\ ~h.cache_hit

\* CacheChecked -> QuestionFiltered: dns_forwarder::apply_filter on the
\* question
FilteredBy(h, rules) ==
  Enter([h EXCEPT !.rules = rules,
                  !.cname = IF is_cname_rewrite(rules) THEN rule_dnsrewrite(rules[1]).value
                            ELSE ""],
        "QuestionFiltered")

apply_filter(slot) ==
  /\ slot \in DOMAIN requests
  /\ requests[slot].stage = "CacheChecked"
  /\ Resolves(requests[slot])
  /\ requests' = [requests EXCEPT ![slot] =
       FilteredBy(@, effective_rules(question_rules(@.request.name, @.request.qtype)))]
  /\ UNCHANGED <<filter_vars, settings, now, response_cache, async_reqs, events>>

\* QuestionFiltered -> Blocked: the response is synthesized
block_request(slot) ==
  /\ slot \in DOMAIN requests
  /\ requests[slot].stage = "QuestionFiltered"
  /\ is_blocking(requests[slot].rules)
  /\ requests' = [requests EXCEPT ![slot] =
       Enter([@ EXCEPT !.response = create_blocking_response(requests[slot].request,
                                                              requests[slot].rules, settings)],
             "Blocked")]
  /\ UNCHANGED <<filter_vars, settings, now, response_cache, async_reqs, events>>

\* the response of an upstream for the handling: the record of a rewrite to
\* a canonical name goes before the answer for that name
UpstreamResponse(h, packet) ==
  IF h.cname # "" /\ packet.rcode = "NOERROR"
  THEN [packet EXCEPT !.answer = <<RR("CNAME", h.cname, BLOCKED_RESPONSE_TTL)>> \o @]
  ELSE packet

\* the handling after an exchange with the upstream `id` gave `result`
Exchanged(h, result, id) ==
  IF result.error # "" THEN h
  ELSE [h EXCEPT !.response = UpstreamResponse(h, result.packet), !.upstream_id = id]

\* QuestionFiltered -> UpstreamTried: do_upstream_exchange with the upstreams
exchange_with_upstreams(slot, outcome) ==
  /\ slot \in DOMAIN requests
  /\ requests[slot].stage = "QuestionFiltered"
  /\ ~is_blocking(requests[slot].rules)
  /\ ~use_fallbacks_first(requests[slot], settings)
  /\ requests' = [requests EXCEPT ![slot] =
       Enter(Exchanged([@ EXCEPT !.primary = exchange(requests[slot].request, outcome)],
                       exchange(requests[slot].request, outcome), settings.upstreams[1]),
             "UpstreamTried")]
  /\ UNCHANGED <<filter_vars, settings, now, response_cache, async_reqs, events>>

\* the handling goes on with the fallbacks
needs_fallbacks(h, s) ==
  /\ s.fallbacks # <<>>
  /\ \/ h.stage = "QuestionFiltered" /\ ~is_blocking(h.rules) /\ use_fallbacks_first(h, s)
     \/ h.stage = "UpstreamTried" /\ exchange_failed(h.primary)

\* -> FallbackTried: do_upstream_exchange with the fallbacks
exchange_with_fallbacks(slot, outcome) ==
  /\ slot \in DOMAIN requests
  /\ needs_fallbacks(requests[slot], settings)
  /\ requests' = [requests EXCEPT ![slot] =
       Enter(Exchanged([@ EXCEPT !.fallback = exchange(requests[slot].request, outcome)],
                       exchange(requests[slot].request, outcome), settings.fallbacks[1]),
             "FallbackTried")]
  /\ UNCHANGED <<filter_vars, settings, now, response_cache, async_reqs, events>>

\* the response for the client when no upstream gave one
create_servfail_response(request) ==
  [rcode |-> "SERVFAIL", answer |-> <<>>, authority |-> <<>>]

\* -> ResponseFiltered
filter_response(slot) ==
  /\ slot \in DOMAIN requests
  /\ requests[slot].stage \in {"Blocked", "UpstreamTried", "FallbackTried"}
  /\ ~needs_fallbacks(requests[slot], settings)
  /\ requests' = [requests EXCEPT ![slot] =
       Enter([@ EXCEPT !.response = IF @ = NoResponse
                                    THEN create_servfail_response(requests[slot].request)
                                    ELSE @],
             "ResponseFiltered")]
  /\ UNCHANGED <<filter_vars, settings, now, response_cache, async_reqs, events>>

\* the response came from an upstream
from_upstream(h) == h.upstream_id # 0 /\ ~is_blocking(h.rules)

\* the handling h put its response into the cache, which is now `cache`
Inserted(slot, h, cache) ==
  /\ response_cache' = cache
  /\ requests' = [requests EXCEPT ![slot] =
       Enter([h EXCEPT !.entry = IF is_cacheable(h.response) /\ CacheFind(cache, h.key) = 1
                                 THEN cache[1] ELSE @],
             "CacheInserted")]

\* ResponseFiltered -> CacheInserted: the success of an upstream is cached
insert_into_cache(slot) ==
  /\ slot \in DOMAIN requests
  /\ requests[slot].stage = "ResponseFiltered"
  /\ IF from_upstream(requests[slot])
     THEN Inserted(slot, requests[slot],
                   put_response_into_cache(response_cache, requests[slot].key,
                                           requests[slot].response,
                                           requests[slot].upstream_id, now, settings))
     ELSE /\ requests' = [requests EXCEPT ![slot] = Enter(@, "CacheInserted")]
          /\ UNCHANGED response_cache
  /\ UNCHANGED <<filter_vars, settings, now, async_reqs, events>>

\* the handling has its response
is_answered(h) ==
  \/ h.stage = "CacheInserted"
  \/ h.stage = "CacheChecked" /\ (h.cache_hit \/ h.reused)

\* the other handlings once h is done: those that waited for its key take
\* its result
Released(slot, h) ==
  [k \in DOMAIN requests \ {slot} |->
     IF Resolves(h) /\ requests[k].waiting /\ requests[k].key = h.key
     THEN [requests[k] EXCEPT !.waiting = FALSE, !.reused = TRUE,
                              !.response = h.response, !.upstream_id = h.upstream_id]
     ELSE requests[k]]

\* -> Encoded: the response is encoded and returned, the event is fired (a
\* background handling fires none), the key is no longer in flight
finalize_processed_event(slot) ==
  /\ slot \in DOMAIN requests
  /\ is_answered(requests[slot])
  /\ events' = IF requests[slot].background THEN events
               ELSE Append(events, Enter(requests[slot], "Encoded"))
  /\ requests' = Released(slot, requests[slot])
  /\ async_reqs' = IF Resolves(requests[slot]) THEN async_reqs \ {requests[slot].key}
                   ELSE async_reqs
  /\ UNCHANGED <<filter_vars, settings, now, response_cache>>

\* a second of the steady clock passes
MaxNow == 4

Tick ==
  /\ settings.initialized
  /\ now < MaxNow
  /\ now' = now + 1
  /\ UNCHANGED <<filter_vars, settings, response_cache, requests, async_reqs, events>>

(***************************************************************************)
(* The cache as an LRU: questions for three names, asked one after the     *)
(* other of a forwarder without rules, whose upstream answers or fails.    *)
(***************************************************************************)
MaxLruRequests == 4

\* an A question in class IN without flags, as the tests' create_request
\* makes it, handed over without dns_message_info
Question(name, qtype) ==
  [id |-> 1, peer |-> "", name |-> name, qtype |-> qtype, qclass |-> "IN",
   cd |-> FALSE, do_bit |-> FALSE]

LruRequests == {Question("google.com", "A"), Question("yandex.ru", "A"), Question("example.org", "A")}
LruSettings == {[DefaultSettings EXCEPT !.dns_cache_size = n] : n \in 0..2}
LruOutcomes == {Outcome("ok", <<3>>), Outcome("error", <<>>)}

InitLru == \E s \in LruSettings : Initialized(s, "")

NextLru ==
  \/ \E request \in LruRequests : handle_message(request, MaxLruRequests, 1)
  \/ check_retransmission(1)
  \/ check_cache(1)
  \/ apply_filter(1)
  \/ \E outcome \in LruOutcomes : exchange_with_upstreams(1, outcome)
  \/ filter_response(1)
  \/ insert_into_cache(1)
  \/ finalize_processed_event(1)

SpecLru == InitLru /\ [][NextLru]_vars

\* the handling used the cache entry of its key: it was answered from it or
\* it inserted it
UsedEntry(r) ==
  \/ r.cache_hit
  \/ /\ settings.dns_cache_size > 0
     /\ \E k \in 1..Len(r.path) : r.path[k] = "CacheInserted"
     /\ from_upstream(r) /\ is_cacheable(r.response)

\* the number of the last message that used the entry of the key, 0 if none
LastUse(key) ==
  LastOf({r.seq : r \in {h \in Handlings : h.key = key /\ UsedEntry(h)}})

CachedKeys == {response_cache[k].key : k \in 1..Len(response_cache)}

UsedKeys == {r.key : r \in {h \in Handlings : UsedEntry(h)}}

\* the cache-hit flags of the events fired so far
HitFlags == [k \in 1..Len(events) |-> events[k].cache_hit]

\* the questions of the four events are K1, K2, K2, K1 and each was answered
\* from the cache or by the upstream
IsK1K2K2K1 ==
  /\ Len(events) >= 4
  /\ events[1].key = events[4].key
  /\ events[2].key = events[3].key
  /\ events[1].key # events[2].key
  /\ \A k \in 1..4 : events[k].cache_hit \/ is_cacheable(events[k].response)

\* C12: the cache never holds more than dns_cache_size entries; it holds
\* the most recently used keys, most recent first, so that the entry a new
\* key pushes out of a full cache is the least recently used one; with size
\* 1 the questions K1, K2, K2, K1 give the cache-hit flags false, false,
\* true, false.
C12_BoundedLru ==
  /\ Len(response_cache) <= settings.dns_cache_size
  /\ \A i, j \in 1..Len(response_cache) :
       i < j => LastUse(response_cache[i].key) > LastUse(response_cache[j].key)
  /\ \A key \in UsedKeys \ CachedKeys :
       /\ Len(response_cache) = settings.dns_cache_size
       /\ \A cached \in CachedKeys : LastUse(cached) > LastUse(key)
  /\ (settings.dns_cache_size = 1 /\ IsK1K2K2K1) =>
       SubSeq(HitFlags, 1, 4) = <<FALSE, FALSE, TRUE, FALSE>>

\* a key was pushed out of a full cache of size 2
LruEvicted ==
  settings.dns_cache_size = 2 /\ Len(response_cache) = 2 /\ UsedKeys \ CachedKeys # {}

\* the four questions were asked of a cache of size 1
C12_Witness == settings.dns_cache_size = 1 /\ IsK1K2K2K1

(***************************************************************************)
(* The cache over time: a question, then one that is the same or differs   *)
(* from it in the case of the name, the name, the class, the type or a     *)
(* flag, then the first again, while the clock runs; the cache is          *)
(* optimistic or not.                                                      *)
(***************************************************************************)
MaxCacheRequests == 2

CacheFirstRequests == {Question("google.com", "A")}

\* the first question and the questions that differ from it in one respect
CacheRequests ==
  {Question("google.com", "A"), Question("GoOGle.CoM", "A"), Question("yandex.ru", "A"),
   Question("google.com", "AAAA"),
   [Question("google.com", "A") EXCEPT !.qclass = "CH"],
   [Question("google.com", "A") EXCEPT !.cd = TRUE],
   [Question("google.com", "A") EXCEPT !.do_bit = TRUE]}

CacheSettings ==
  {[DefaultSettings EXCEPT !.dns_cache_size = 2, !.optimistic_cache = o] : o \in BOOLEAN}

CacheOutcomes == {Outcome("ok", <<3, 2>>), Outcome("servfail", <<>>)}

\* The forwarder reads the clock when a message arrives, when it looks the
\* key up and when it inserts the response: time that passes elsewhere is
\* time that passes before the next of these.
ClockRead ==
  /\ requests # <<>>
  /\ \A slot \in DOMAIN requests : requests[slot].stage \in {"RetxChecked", "ResponseFiltered"}

InitCache == \E s \in CacheSettings : Initialized(s, "")

NextCache ==
  \/ \E request \in (IF Arrived = 1 THEN CacheRequests ELSE CacheFirstRequests) :
       handle_message(request, MaxCacheRequests, 1)
  \/ check_retransmission(1)
  \/ check_cache(1)
  \/ \E slot \in 1..2 : apply_filter(slot)
  \/ \E slot \in 1..2, outcome \in CacheOutcomes : exchange_with_upstreams(slot, outcome)
  \/ \E slot \in 1..2 : filter_response(slot)
  \/ \E slot \in 1..2 : insert_into_cache(slot)
  \/ \E slot \in 1..2 : finalize_processed_event(slot)
  \/ ClockRead /\ Tick

SpecCache == InitCache /\ [][NextCache]_vars

\* the two requests agree on what a cache key is made of
SameQuestion(a, b) ==
  /\ to_lower(a.name) = to_lower(b.name)
  /\ a.qclass = b.qclass
  /\ a.qtype = b.qtype
  /\ a.cd = b.cd
  /\ a.do_bit = b.do_bit

\* the handling put an entry into the cache
IsInserter(h) == ~h.cache_hit /\ h.entry # NoEntry

\* C13: a request is answered from the entry another request put into the
\* cache only if the two agree on the lowercased name, the class, the type,
\* CD and DO, and the next request that agrees with the one that put a
\* still valid entry is answered from that entry.
C13_KeyDiscrimination ==
  \A a, b \in {h \in Handlings : ~h.background} :
    (IsInserter(a) /\ b.seq > a.seq /\ b.stage # "Decoded" /\ b.stage # "RetxChecked") =>
      /\ (b.cache_hit /\ b.entry = a.entry) => SameQuestion(a.request, b.request)
      /\ (SameQuestion(a.request, b.request) /\ b.seq = a.seq + 1
            /\ b.checked_at < a.entry.expires_at)
           => (b.cache_hit /\ b.entry = a.entry)

\* a request that differs from the first one in the case of the name only
\* was answered from the entry of the first
C13_Witness ==
  \E a, b \in Handlings :
    /\ IsInserter(a) /\ b.cache_hit /\ b.entry = a.entry
    /\ a.request.name # b.request.name

\* C14: the TTLs of a response that comes from a cache entry which has not
\* expired are at most the TTLs the entry was inserted with less the time
\* since the insertion.
C14_TtlMonotonicity ==
  \A h \in Handlings :
    (h.cache_hit /\ h.checked_at < h.entry.expires_at) =>
      /\ Len(h.response.answer) = Len(h.entry.response.answer)
      /\ \A k \in 1..Len(h.response.answer) :
           h.response.answer[k].ttl
             <= h.entry.response.answer[k].ttl - (h.checked_at - h.entry.inserted_at)

\* a response of two records came from an entry inserted a second or more
\* before
C14_Witness ==
  \E h \in Handlings :
    /\ h.cache_hit /\ h.checked_at < h.entry.expires_at
    /\ h.checked_at > h.entry.inserted_at
    /\ Len(h.response.answer) = 2

\* the entry was expired when the handling looked it up
FoundExpired(h) == h.checked_at >= h.entry.expires_at

\* C15: every entry expires at its insertion time plus its smallest answer
\* TTL; a response comes from an expired entry only if the cache is
\* optimistic, and then it is flagged expired and all its TTLs are 1; a
\* response from an entry that has not expired is not flagged.
C15_ExpiredEntries ==
  /\ \A k \in 1..Len(response_cache) :
       /\ \A i \in 1..Len(response_cache[k].response.answer) :
            response_cache[k].expires_at
              <= response_cache[k].inserted_at + response_cache[k].response.answer[i].ttl
       /\ \E i \in 1..Len(response_cache[k].response.answer) :
            response_cache[k].expires_at
              = response_cache[k].inserted_at + response_cache[k].response.answer[i].ttl
  /\ \A h \in Handlings :
       h.cache_hit =>
         /\ h.expired = FoundExpired(h)
         /\ FoundExpired(h) =>
              /\ settings.optimistic_cache
              /\ \A k \in 1..Len(h.response.answer) : h.response.answer[k].ttl = 1

\* an expired entry was served
C15_Witness ==
  \E h \in Handlings : h.cache_hit /\ FoundExpired(h) /\ Len(h.response.answer) = 2

\* the cache is not optimistic and a request found the entry of its key
\* expired
ExpiredMiss ==
  /\ ~settings.optimistic_cache
  /\ \E a, b \in Handlings :
       /\ IsInserter(a) /\ b.seq = a.seq + 1 /\ b.key = a.key
       /\ b.stage = "CacheChecked" /\ b.checked_at >= a.entry.expires_at
       /\ ~b.cache_hit

(***************************************************************************)
(* Blocking: one question at a time for names that the rules of the        *)
(* blocking-mode tests block, rewrite, except or leave alone, under every  *)
(* pair of blocking modes and every choice of custom blocking addresses.   *)
(***************************************************************************)
MaxBlockingRequests == 1

\* rules for the names that the blocking-mode tests ask for, a rule with
\* an exception, and the rewrite to a canonical name of test_dnsrewrite_cname
BlockingRules ==
  JoinLines(<<"||adb-style.com^",
              "0.0.0.0 hosts-style-unspec.com",
              "::1 hosts-style-loopback-6.com",
              "1.2.3.4 hosts-style-custom.com",
              "12::34 hosts-style-custom-6.com",
              "4.5.6.7 hosts-style-4-and-6.com",
              "45::67 hosts-style-4-and-6.com",
              "||allowed.com^",
              "@@||allowed.com^",
              "example.com$dnsrewrite=ietf.org">>)

\* the record type 65 of the tests' "weird qtype"
BlockingTypes == {"A", "AAAA", "TYPE65"}

BlockingRequests ==
  {Question(name, qtype) :
     name \in {"adb-style.com", "hosts-style-unspec.com", "hosts-style-loopback-6.com",
               "hosts-style-custom.com", "hosts-style-custom-6.com",
               "hosts-style-4-and-6.com", "allowed.com", "example.com", "google.com"},
     qtype \in BlockingTypes}

\* the questions after the first: a blocked one and one that is not
BlockingLaterRequests ==
  {Question("adb-style.com", "A"), Question("google.com", "A")}

BlockingSettings ==
  {[DefaultSettings EXCEPT !.adblock_rules_blocking_mode = adblock_mode,
                           !.hosts_rules_blocking_mode = hosts_mode,
                           !.custom_blocking_ipv4 = ipv4,
                           !.custom_blocking_ipv6 = ipv6,
                           !.fallbacks = <<FALLBACK_ID>>] :
     adblock_mode \in {"REFUSED", "NXDOMAIN", "ADDRESS"},
     hosts_mode \in {"REFUSED", "NXDOMAIN", "ADDRESS"},
     ipv4 \in {"", "4.3.2.1"}, ipv6 \in {"", "43::21"}}

BlockingOutcomes == {Outcome("ok", <<3>>), Outcome("error", <<>>)}

InitBlocking == \E s \in BlockingSettings : Initialized(s, BlockingRules)

NextBlocking ==
  \/ \E request \in (IF Arrived = 0 THEN BlockingRequests ELSE BlockingLaterRequests) :
       handle_message(request, MaxBlockingRequests, 1)
  \/ check_retransmission(1)
  \/ check_cache(1)
  \/ apply_filter(1)
  \/ block_request(1)
  \/ \E outcome \in BlockingOutcomes : exchange_with_upstreams(1, outcome)
  \/ \E outcome \in BlockingOutcomes : exchange_with_fallbacks(1, outcome)
  \/ filter_response(1)
  \/ insert_into_cache(1)
  \/ finalize_processed_event(1)

SpecBlocking == InitBlocking /\ [][NextBlocking]_vars

\* the states the handling went through
Visited(h) == {h.path[k] : k \in 1..Len(h.path)}

\* the stages after the question was filtered
PastQuestionFilter ==
  {"Blocked", "UpstreamTried", "FallbackTried", "ResponseFiltered", "CacheInserted", "Encoded"}

\* the question of the handling has a blocking effective rule
HasBlockingRule(h) ==
  /\ "QuestionFiltered" \in Visited(h)
  /\ h.rules # <<>>
  /\ "EXCEPTION" \notin h.rules[1].props
  /\ ~("DNSREWRITE" \in h.rules[1].props /\ rule_dnsrewrite(h.rules[1]).rrtype = "CNAME")

\* the handling went from QuestionFiltered to ResponseFiltered by a
\* synthesized response only
StraightToResponseFiltered(h) ==
  \A k \in 1..(Len(h.path) - 1) :
    h.path[k] = "QuestionFiltered" =>
      /\ h.path[k + 1] = "Blocked"
      /\ k + 2 <= Len(h.path) => h.path[k + 2] = "ResponseFiltered"

\* C11: a request whose question has a blocking effective rule gets a
\* synthesized response and goes from QuestionFiltered to ResponseFiltered
\* without entering UpstreamTried or FallbackTried: no exchange is made
\* for it.
C11_BlockedNeverExchanged ==
  \A h \in Handlings :
    HasBlockingRule(h) =>
      /\ "UpstreamTried" \notin Visited(h)
      /\ "FallbackTried" \notin Visited(h)
      /\ h.primary = NoExchange /\ h.fallback = NoExchange
      /\ h.upstream_id = 0
      /\ StraightToResponseFiltered(h)
      /\ h.stage \in PastQuestionFilter => h.response # NoResponse

\* a blocked request was answered, and fallbacks were there to be tried
C11_Witness ==
  \E k \in 1..Len(events) :
    /\ HasBlockingRule(events[k])
    /\ events[k].response.rcode = "REFUSED"
    /\ settings.fallbacks # <<>>

\* a request with an excepted or rewriting rule was exchanged
UnblockedExchanged ==
  \E k \in 1..Len(events) :
    /\ events[k].rules # <<>>
    /\ ~HasBlockingRule(events[k])
    /\ "FallbackTried" \in Visited(events[k])

\* the addresses of the family asked for that the hosts rules of the
\* handling carry
SpecificIps(h) ==
  {rule_ip(h.rules[k]) : k \in {i \in 1..Len(h.rules) :
     /\ has_specific_ip(h.rules[i])
     /\ ip_rr_type(rule_ip(h.rules[i])) = h.request.qtype}}

\* the question of the handling matched a hosts rule with a specific IP
HasSpecificIp(h) ==
  /\ h.stage \in PastQuestionFilter
  /\ \E k \in 1..Len(h.rules) : has_specific_ip(h.rules[k])

\* a response without an answer and with one SOA
IsSoaResponse(response) ==
  /\ response.rcode = "NOERROR"
  /\ response.answer = <<>>
  /\ Len(response.authority) = 1 /\ response.authority[1].type = "SOA"

\* a response whose answer is the addresses ips as records of type qtype
IsAddressResponse(response, qtype, ips) ==
  /\ response.rcode = "NOERROR"
  /\ response.answer # <<>>
  /\ {response.answer[k].value : k \in 1..Len(response.answer)} = ips
  /\ \A k \in 1..Len(response.answer) : response.answer[k].type = qtype

\* C17: under every hosts blocking mode and every custom blocking address,
\* a question that matches a hosts rule with a specific IP is answered
\* with that IP if it is of the family asked for, and with NOERROR, a SOA
\* and no answer otherwise.
C17_SpecificIpAnswered ==
  \A h \in Handlings :
    HasSpecificIp(h) =>
      IF SpecificIps(h) # {}
      THEN IsAddressResponse(h.response, h.request.qtype, SpecificIps(h))
      ELSE IsSoaResponse(h.response)

\* the rule's address was the answer although the mode is REFUSED and a
\* custom address is configured
C17_Witness ==
  \E k \in 1..Len(events) :
    /\ HasSpecificIp(events[k])
    /\ settings.hosts_rules_blocking_mode = "REFUSED"
    /\ settings.custom_blocking_ipv4 # ""
    /\ IsAddressResponse(events[k].response, "A", {"1.2.3.4"})

\* a question of the other family was answered with a SOA
OtherFamilySoa ==
  \E k \in 1..Len(events) :
    /\ HasSpecificIp(events[k])
    /\ events[k].request.qtype = "AAAA"
    /\ "1.2.3.4" \in {rule_ip(events[k].rules[i]) : i \in 1..Len(events[k].rules)}
    /\ IsSoaResponse(events[k].response)

\* the handling was blocked in mode ADDRESS by a rule without an address
\* of its own
BlockedByAddressMode(h) ==
  /\ h.stage \in PastQuestionFilter
  /\ HasBlockingRule(h)
  /\ "DNSREWRITE" \notin h.rules[1].props
  /\ ~HasSpecificIp(h)
  /\ IF h.rules[1].content = "adblock" THEN settings.adblock_rules_blocking_mode = "ADDRESS"
     ELSE settings.hosts_rules_blocking_mode = "ADDRESS"

\* the custom blocking address of a family, "" if there is none
CustomAddress(qtype) ==
  IF qtype = "A" THEN settings.custom_blocking_ipv4 ELSE settings.custom_blocking_ipv6

UnspecifiedAddress(qtype) == IF qtype = "A" THEN "0.0.0.0" ELSE "::"

\* C18 as stated: in mode ADDRESS an A or AAAA question blocked by a rule
\* without an address of its own is answered with the custom address of its
\* family if there is one and with the unspecified address otherwise, also
\* when only the other family has a custom address.
C18_AddressOrUnspecified ==
  \A h \in Handlings :
    (BlockedByAddressMode(h) /\ h.request.qtype \in {"A", "AAAA"}) =>
      IsAddressResponse(h.response, h.request.qtype,
                        {IF CustomAddress(h.request.qtype) # ""
                         THEN CustomAddress(h.request.qtype)
                         ELSE UnspecifiedAddress(h.request.qtype)})

\* C18 (amended): in mode ADDRESS an A or AAAA question blocked by a rule
\* without an address of its own, the loopback and the unspecified address
\* counting as none, is answered with the custom address of its family if
\* there is one, with the unspecified address if no custom address is
\* configured at all, and with NOERROR, a SOA and no answer if only the
\* other family has a custom address.
C18_AddressMode ==
  \A h \in Handlings :
    (BlockedByAddressMode(h) /\ h.request.qtype \in {"A", "AAAA"}) =>
      IF CustomAddress(h.request.qtype) # ""
      THEN IsAddressResponse(h.response, h.request.qtype, {CustomAddress(h.request.qtype)})
      ELSE IF settings.custom_blocking_ipv4 = "" /\ settings.custom_blocking_ipv6 = ""
      THEN IsAddressResponse(h.response, h.request.qtype,
                             {UnspecifiedAddress(h.request.qtype)})
      ELSE IsSoaResponse(h.response)

\* an AAAA question for a name with a loopback hosts rule was answered
\* with a SOA because only the IPv4 custom address is configured
C18_Witness ==
  \E k \in 1..Len(events) :
    /\ BlockedByAddressMode(events[k])
    /\ events[k].request.qtype = "AAAA"
    /\ rule_ip(events[k].rules[1]) = "::1"
    /\ settings.custom_blocking_ipv4 # "" /\ settings.custom_blocking_ipv6 = ""
    /\ IsSoaResponse(events[k].response)

\* an A question was answered with the unspecified address
UnspecifiedAnswered ==
  \E k \in 1..Len(events) :
    /\ BlockedByAddressMode(events[k])
    /\ IsAddressResponse(events[k].response, "A", {"0.0.0.0"})

(***************************************************************************)
(* Fallbacks: a question for a name that is or is not a fallback domain,   *)
(* from a known peer or without one, and then the same message again,      *)
(* within the retransmission window or after it; the upstream and the      *)
(* fallback answer or fail.                                                *)
(***************************************************************************)
MaxFallbackRequests == 2

\* fallback domains: one of the defaults that the test asks for, and two of
\* the patterns of the test fallback_domains_good
FallbackDomains == {"epdg.epc.att.net", "*.local", "mygateway"}

\* the names asked for that are fallback domains
FallbackNames == {"epdg.epc.att.net", "printer.local", "mygateway"}

FallbackRequests ==
  {[Question(name, "A") EXCEPT !.peer = peer] :
     name \in FallbackNames \cup {"b.epdg.epc.att.net", "google.com"},
     peer \in {"", "client"}}

FallbackSettings ==
  {[DefaultSettings EXCEPT !.dns_cache_size = n, !.fallbacks = <<FALLBACK_ID>>,
                           !.fallback_domains = FallbackDomains] : n \in 0..1}

PrimaryOutcomes ==
  {Outcome("ok", <<3>>), Outcome("servfail", <<>>), Outcome("error", <<>>),
   Outcome("timeout", <<>>)}

FallbackOutcomes == {Outcome("ok", <<3>>), Outcome("error", <<>>)}

InitFallback == \E s \in FallbackSettings : Initialized(s, "")

NextFallback ==
  \/ \E request \in (IF Arrived = 0 THEN FallbackRequests
                     ELSE {h.request : h \in Handlings}) :
       handle_message(request, MaxFallbackRequests, 1)
  \/ check_retransmission(1)
  \/ check_cache(1)
  \/ apply_filter(1)
  \/ \E outcome \in PrimaryOutcomes : exchange_with_upstreams(1, outcome)
  \/ \E outcome \in FallbackOutcomes : exchange_with_fallbacks(1, outcome)
  \/ filter_response(1)
  \/ insert_into_cache(1)
  \/ finalize_processed_event(1)
  \/ requests = <<>> /\ Tick

SpecFallback == InitFallback /\ [][NextFallback]_vars

\* the handling is through with the upstreams
Exchanges(h) ==
  /\ "QuestionFiltered" \in Visited(h)
  /\ h.stage \in {"ResponseFiltered", "CacheInserted", "Encoded"}

\* the exchange with the primary upstream was made and gave no usable
\* response
PrimaryFailed(h) ==
  /\ "UpstreamTried" \in Visited(h)
  /\ \/ h.primary.error # ""
     \/ h.primary.packet.rcode = "SERVFAIL"

\* the exchange with the primary upstream gave a response
PrimarySucceeded(h) ==
  /\ "UpstreamTried" \in Visited(h)
  /\ h.primary.error = "" /\ h.primary.packet.rcode # "SERVFAIL"

IsFallbackName(h) == to_lower(h.request.name) \in FallbackNames

\* C16 as stated: a query is exchanged with the fallbacks exactly when the
\* primary exchange fails or the name is a fallback domain; a fallback
\* domain is answered with the fallback's id, and another name with the
\* primary's id when the primary succeeds.
C16_FallbackExactlyWhen ==
  \A h \in Handlings :
    Exchanges(h) =>
      /\ ("FallbackTried" \in Visited(h)) <=> (PrimaryFailed(h) \/ IsFallbackName(h))
      /\ (IsFallbackName(h) /\ h.fallback.error = "") => h.upstream_id = FALLBACK_ID
      /\ (~IsFallbackName(h) /\ PrimarySucceeded(h)) => h.upstream_id = UPSTREAM_ID

\* C16 (amended): with fallbacks configured, a query that is neither
\* blocked nor answered from the cache is exchanged with the fallbacks
\* exactly when the primary exchange fails, or the name is a fallback
\* domain, or the message is a retransmission; a fallback domain and a
\* retransmission are not exchanged with the primary upstream and carry the
\* fallback's id when the fallback answers; any other name carries the
\* primary's id when the primary succeeds.
C16_FallbackRouting ==
  \A h \in Handlings :
    Exchanges(h) =>
      /\ ("FallbackTried" \in Visited(h))
           <=> (PrimaryFailed(h) \/ IsFallbackName(h) \/ is_retransmission(h))
      /\ (IsFallbackName(h) \/ is_retransmission(h)) =>
           /\ "UpstreamTried" \notin Visited(h)
           /\ h.fallback.error = "" => h.upstream_id = FALLBACK_ID
      /\ (~IsFallbackName(h) /\ ~is_retransmission(h)) =>
           /\ "UpstreamTried" \in Visited(h)
           /\ PrimarySucceeded(h) => (h.upstream_id = UPSTREAM_ID /\ h.fallback = NoExchange)

\* a retransmission for a name that is no fallback domain was answered by
\* the fallback, the primary upstream left out
C16_Witness ==
  \E k \in 1..Len(events) :
    /\ is_retransmission(events[k])
    /\ ~IsFallbackName(events[k])
    /\ "UpstreamTried" \notin Visited(events[k])
    /\ events[k].upstream_id = FALLBACK_ID

\* a fallback domain that is no retransmission was answered by the fallback
FallbackDomainAnswered ==
  \E k \in 1..Len(events) :
    /\ events[k].request.name = "epdg.epc.att.net" /\ events[k].upstream_id = FALLBACK_ID
    /\ ~is_retransmission(events[k])

\* a subdomain of a fallback domain was answered by the primary upstream
SubdomainAnswered ==
  \E k \in 1..Len(events) :
    events[k].request.name = "b.epdg.epc.att.net" /\ events[k].upstream_id = UPSTREAM_ID

\* the primary upstream timed out and the fallback answered
FellBack ==
  \E k \in 1..Len(events) :
    /\ events[k].primary.error = TIMEOUT_STR
    /\ ~IsFallbackName(events[k])
    /\ events[k].upstream_id = FALLBACK_ID

(***************************************************************************)
(* Requests in flight: two messages are handled at a time; the second is   *)
(* for the question of the others or for another one; entries expire       *)
(* between the messages and are refreshed in the background.  The forwarder has one condition variable for all keys: *)
(* a handling that waits goes on when its key has left async_reqs.         *)
(***************************************************************************)
MaxAsyncRequests == 3

AsyncRequests == {Question("google.com", "A"), Question("yandex.ru", "A")}

AsyncSettings == {[DefaultSettings EXCEPT !.optimistic_cache = o] : o \in BOOLEAN}

AsyncOutcomes == {Outcome("ok", <<1>>), Outcome("error", <<>>)}

InitAsync == \E s \in AsyncSettings : Initialized(s, "")

NextAsync ==
  \/ \E request \in (IF Arrived = 1 THEN AsyncRequests ELSE {Question("google.com", "A")}) :
       handle_message(request, MaxAsyncRequests, 2)
  \/ \E slot \in 1..3 : check_retransmission(slot)
  \/ \E slot \in 1..3 : check_cache(slot)
  \/ \E slot \in 1..3 : apply_filter(slot)
  \/ \E slot \in 1..3, outcome \in AsyncOutcomes : exchange_with_upstreams(slot, outcome)
  \/ \E slot \in 1..3 : filter_response(slot)
  \/ \E slot \in 1..3 : insert_into_cache(slot)
  \/ \E slot \in 1..3 : finalize_processed_event(slot)
  \/ requests = <<>> /\ Tick

SpecAsync == InitAsync /\ [][NextAsync]_vars

\* the handling in the place `slot` resolves its key: it looked the key up
\* and neither got the response from the cache nor waits for one
InFlight(slot) ==
  /\ requests[slot].stage \notin {"Decoded", "RetxChecked"}
  /\ ~requests[slot].cache_hit
  /\ ~requests[slot].waiting
  /\ ~requests[slot].reused

\* the places of the handlings that resolve the key
ResolutionsOf(key) == {slot \in DOMAIN requests : InFlight(slot) /\ requests[slot].key = key}

\* for every key at most one resolution is in flight, and async_reqs holds
\* the keys that have one; a handling that found its key in flight makes no
\* exchange
OneResolutionPerKey ==
  /\ \A slot \in DOMAIN requests : Cardinality(ResolutionsOf(requests[slot].key)) <= 1
  /\ async_reqs = {requests[slot].key : slot \in {k \in DOMAIN requests : InFlight(k)}}
  /\ \A h \in Handlings :
       (h.waiting \/ h.reused) =>
         /\ h.primary = NoExchange /\ h.fallback = NoExchange
         /\ "UpstreamTried" \notin Visited(h)
  /\ \A slot \in DOMAIN requests :
       requests[slot].waiting => ResolutionsOf(requests[slot].key) # {}

\* a handling that waited goes on with the result of the resolution of its
\* key, when that resolution is done
ReusesResult ==
  \A slot \in DOMAIN requests :
    (requests[slot].waiting /\ slot \in DOMAIN requests' /\ ~requests'[slot].waiting) =>
      \E done \in ResolutionsOf(requests[slot].key) \ DOMAIN requests' :
        /\ requests'[slot].reused
        /\ requests'[slot].response = requests[done].response
        /\ requests'[slot].upstream_id = requests[done].upstream_id

OneRefresh ==
  \E a, b \in DOMAIN requests :
    /\ a # b /\ requests[a].key = requests[b].key
    /\ requests[a].expired /\ requests[a].stage = "CacheChecked"
    /\ requests[b].background
    /\ \E k \in 1..Len(events) : events[k].expired /\ events[k].key = requests[a].key
                                  /\ events[k].seq # requests[a].seq

\* a request waits while another resolves its key
Waits ==
  \E a, b \in DOMAIN requests : requests[a].waiting /\ requests[b].key = requests[a].key
                                 /\ requests[b].stage = "UpstreamTried"

(***************************************************************************)
(* match_shortcuts on its own: every host of a few bytes against every     *)
(* list of a few parts.                                                    *)
(***************************************************************************)
MaxHostLen == 4
MaxParts == 2

ShortcutBytes == {"a", "b"}

RECURSIVE StringsOfLen(_)
StringsOfLen(n) ==
  IF n = 0 THEN {""} ELSE {d \o c : d \in StringsOfLen(n - 1), c \in ShortcutBytes}

ShortcutHosts == UNION {StringsOfLen(n) : n \in 1..MaxHostLen}

ShortcutParts == UNION {StringsOfLen(n) : n \in 1..2}

RECURSIVE ListsOfLen(_)
ListsOfLen(n) ==
  IF n = 0 THEN {<<>>} ELSE {Append(l, p) : l \in ListsOfLen(n - 1), p \in ShortcutParts}

ShortcutLists == UNION {ListsOfLen(n) : n \in 0..MaxParts}

\* bool r = match_shortcuts(shortcuts, domain)
MatchShortcuts ==
  /\ probe.fn = "match_shortcuts"
  /\ ~probe.called
  /\ probe' = [probe EXCEPT !.called = TRUE,
                            !.ret = match_shortcuts(probe.args[1], probe.args[2])]
  /\ UNCHANGED <<fs, clock, f, state, mem_limit, last_load, ctx, match_ret, pc, reader, forwarder_vars>>

InitShortcuts ==
  \E shortcuts \in ShortcutLists, domain \in ShortcutHosts :
    /\ fs = NoFile
    /\ clock = 1
    /\ f = [params |-> NoParams, pimpl |-> NewImpl]
    /\ state = "constructed"
    /\ mem_limit = 0
    /\ last_load = NoLoad
    /\ ctx = NoContext
    /\ match_ret = TRUE
    /\ pc = "idle"
    /\ reader = NoLines
    /\ probe = [fn |-> "match_shortcuts", args |-> <<shortcuts, domain>>,
                called |-> FALSE, ret |-> FALSE]
    /\ NoForwarder

NextShortcuts == MatchShortcuts

SpecShortcuts == InitShortcuts /\ [][NextShortcuts]_vars

\* every part occurs in the host from position `from` on, in the given
\* order, each after the end of the occurrence of the one before
RECURSIVE OccurInOrder(_, _, _)
OccurInOrder(parts, host, from) ==
  IF parts = <<>> THEN TRUE
  ELSE LET at == FindFrom(host, Head(parts), from)
       IN  /\ at # 0
           /\ OccurInOrder(Tail(parts), host, at + Len(Head(parts)))

\* every part occurs in the host somewhere
AllOccur(parts, host) == \A k \in 1..Len(parts) : Find(host, parts[k]) # 0

\* C21 (as stated, for a list of at least one part): match_shortcuts
\* returns true if and only if every part occurs in the host in the given
\* order, each search starting where the match of the previous part ended;
\* a host in which the parts occur only in a different order does not match.
C21_ShortcutsInOrder ==
  (probe.fn = "match_shortcuts" /\ probe.called /\ probe.args[1] # <<>>) =>
    (probe.ret <=> OccurInOrder(probe.args[1], probe.args[2], 1))

\* what match_shortcuts does do: it accepts every host that has the parts in
\* order, and it accepts no host that lacks a part
C21_BetweenOrderedAndUnordered ==
  (probe.fn = "match_shortcuts" /\ probe.called /\ probe.args[1] # <<>>) =>
    /\ OccurInOrder(probe.args[1], probe.args[2], 1) => probe.ret
    /\ probe.ret => AllOccur(probe.args[1], probe.args[2])

\* a host that has the parts only in the other order was accepted
C21_Witness ==
  /\ probe.fn = "match_shortcuts"
  /\ probe.called
  /\ probe.ret
  /\ Len(probe.args[1]) = 2
  /\ ~OccurInOrder(probe.args[1], probe.args[2], 1)

(***************************************************************************)
(* Queries that reach one line of the rule list along several ways: a      *)
(* hosts line with two domains, both suffixes of the host, with and        *)
(* without a comment, and a pattern whose shortcut occurs twice in the     *)
(* host.                                                                   *)
(***************************************************************************)
DUPLICATE_RULES ==
  <<"0.0.0.0 example.org sub.example.org", "1.2.3.4 sub.example.org example.org # both",
    "examp*.org", "||example.org^">>

DuplicateLists == ListsOf(DUPLICATE_RULES)
DuplicateHosts == {"example.org", "sub.example.org", "exampexamp.org"}
DuplicateTypes == {"A", "AAAA", "MX"}

InitDuplicates == \E data \in DuplicateLists : Constructed(data, 0)

NextDuplicates ==
  \/ LoadFile
  \/ \E domain \in DuplicateHosts, rr_type \in DuplicateTypes : Match(domain, rr_type)
  \/ DropContext

SpecDuplicates == InitDuplicates /\ [][NextDuplicates]_vars

\* the entries of matched_rules produced from the line
EntriesOf(line) ==
  {k \in 1..Len(ctx.matched_rules) : ctx.matched_rules[k] = public_part(parse(line))}

\* the lines the filter loaded
LoadedLines == {f.pimpl.inserted[k][2] : k \in 1..Len(f.pimpl.inserted)}

\* C22 (as stated): after a filter::match call matched_rules holds no two
\* entries produced from the same source line, whether the line is reached
\* through several domains of a hosts line, has a trailing # comment, or is
\* hit by several windows of the host.
C22_NoDuplicates ==
  pc = "matched" => \A line \in LoadedLines : Cardinality(EntriesOf(line)) <= 1

\* what is_unique_rule does give: a line that is the text of its rule is in
\* matched_rules at most once
C22_NoDuplicatesOfWholeLines ==
  pc = "matched" =>
    \A line \in LoadedLines :
      parse(line).text = line => Cardinality(EntriesOf(line)) <= 1

\* a hosts line with a comment was reached along two domains
C22_Witness ==
  /\ pc = "matched"
  /\ \E line \in LoadedLines : Find(line, "#") # 0 /\ Cardinality(EntriesOf(line)) = 2

\* a line was reached along two ways and is in matched_rules once
C22_Suppressed ==
  /\ pc = "matched"
  /\ ctx.host = "sub.example.org"
  /\ Cardinality(EntriesOf("0.0.0.0 example.org sub.example.org")) = 1

(***************************************************************************)
(* The order of matched_rules: rule lists with lines of every table, in an *)
(* order that is not the order of the lookup.                              *)
(***************************************************************************)
ORDER_RULES ==
  <<"ex*.org", "examp*.org", "example.org$badfilter", "||example.org^", "example.org",
    "ex*.org$badfilter">>

OrderLists == ListsOf(ORDER_RULES)
OrderHosts == {"example.org", "sub.example.org"}

InitOrder == \E data \in OrderLists : Constructed(data, 0)

NextOrder ==
  \/ LoadFile
  \/ \E domain \in OrderHosts : Match(domain, "A")
  \/ DropContext

SpecOrder == InitOrder /\ [][NextOrder]_vars

\* the offset of the loaded line that produced the entry of the given text
OffsetOfText(text) ==
  CHOOSE o \in {f.pimpl.inserted[k][1] : k \in 1..Len(f.pimpl.inserted)} :
    \E k \in 1..Len(f.pimpl.inserted) :
      f.pimpl.inserted[k][1] = o /\ parse(f.pimpl.inserted[k][2]).text = text

\* the offsets search_by_domains visits for a hash, in order
DomainBucket(p, h) ==
  IF h \in DOMAIN p.unique_domains THEN <<p.unique_domains[h]>>
  ELSE IF h \in DOMAIN p.domains THEN p.domains[h]
  ELSE <<>>

\* the offsets search_by_shortcuts visits for a hash, in order
ShortcutBucket(p, h) == IF h \in DOMAIN p.shortcuts THEN p.shortcuts[h] ELSE <<>>

\* the places of the lookup order at which the offset o is visited: the
\* stage of the lookup, the step within the stage, the place in the bucket
DomainPlaces(o) ==
  UNION {{<<1, i, j>> : j \in {k \in 1..Len(DomainBucket(f.pimpl, hash(ctx.subdomains[i]))) :
                                 DomainBucket(f.pimpl, hash(ctx.subdomains[i]))[k] = o}} :
           i \in 1..Len(ctx.subdomains)}

\* the 5 bytes of the host from offset i on
Window(host, i) == SubSeq(host, i + 1, i + SHORTCUT_LENGTH)

ShortcutPlaces(o) ==
  UNION {{<<2, i, j>> : j \in {k \in 1..Len(ShortcutBucket(f.pimpl, hash(Window(ctx.host, i)))) :
                                 ShortcutBucket(f.pimpl, hash(Window(ctx.host, i)))[k] = o}} :
           i \in 0..(Len(ctx.host) - SHORTCUT_LENGTH)}

LeftoverPlaces(o) ==
  {<<3, i, 0>> : i \in {k \in 1..Len(f.pimpl.leftovers) : f.pimpl.leftovers[k].file_idx = o}}

\* search_badfilter_rules visits a badfilter rule at the entry it annuls
BadfilterPlaces(o) ==
  {<<4, i, 0>> : i \in {k \in 1..Len(ctx.matched_rules) :
                          /\ hash(ctx.matched_rules[k].text) \in DOMAIN f.pimpl.badfilter
                          /\ f.pimpl.badfilter[hash(ctx.matched_rules[k].text)] = o}}

LookupPlaces(o) ==
  DomainPlaces(o) \cup ShortcutPlaces(o) \cup LeftoverPlaces(o) \cup BadfilterPlaces(o)

\* the place x comes before the place y in the lookup order
Before(x, y) ==
  \/ x[1] < y[1]
  \/ x[1] = y[1] /\ x[2] < y[2]
  \/ x[1] = y[1] /\ x[2] = y[2] /\ x[3] < y[3]

\* some place of the set is before every other one
HasFirst(S) == \E x \in S : \A y \in S \ {x} : Before(x, y)

\* the first place at which the lookup visits the line of the k-th entry
FirstPlace(k) ==
  CHOOSE x \in LookupPlaces(OffsetOfText(ctx.matched_rules[k].text)) :
    \A y \in LookupPlaces(OffsetOfText(ctx.matched_rules[k].text)) \ {x} : Before(x, y)

\* the context and the search state of the query of ctx, made anew
SameQuery == create_match_context(ctx.host, ctx.rr_type)
SameSearch == before_badfilter_search(f, fs, SameQuery)

\* C23, the order: the rules of matched_rules appear in lookup order, the
\* domain tables first (host first, then each shorter suffix, within one hash
\* in stored offset order), then the shortcuts table (windows left to right),
\* then the leftovers in table order, then the badfilter rules.
C23_LookupOrder ==
  pc = "matched" =>
    /\ \A k \in 1..Len(ctx.matched_rules) :
         HasFirst(LookupPlaces(OffsetOfText(ctx.matched_rules[k].text)))
    /\ \A k \in 1..(Len(ctx.matched_rules) - 1) : Before(FirstPlace(k), FirstPlace(k + 1))

\* C23 (as stated), the part on two calls: another match call on the same
\* index and the same query produces the same sequence.
C23_SameSequence ==
  pc = "matched" =>
    \A garbled \in SUBSET DanglingReads(SameSearch, f, fs) :
      match(f, fs, SameQuery, garbled).ctx.matched_rules = ctx.matched_rules

\* a query found rules of every stage of the lookup
C23_Witness ==
  /\ pc = "matched"
  /\ \A stage \in 1..4 :
       \E k \in 1..Len(ctx.matched_rules) : FirstPlace(k)[1] = stage

(***************************************************************************)
(* Reading a line back: for_each_line and read_line with their buffers, on *)
(* every file of a few bytes.  The buffers of the code hold 64 KiB and     *)
(* 4 KiB; here they hold one to MaxChunk bytes, so that lines cross them.  *)
(***************************************************************************)
MaxOffsetFile == 4
MaxChunk == 3

ChunkSizes == 1..MaxChunk

OffsetFiles == UNION {FilesOfSize(n) : n \in 0..MaxOffsetFile}

Min(a, b) == IF a < b THEN a ELSE b

RECURSIVE for_each_line_bytes(_, _, _, _, _)
\* the inner loop of ag::file::for_each_line over the r bytes of the buffer
\* read at file_idx, from byte i on; st is [line, line_idx, calls]
for_each_line_bytes(data, file_idx, i, r, st) ==
  IF i >= r THEN st
  ELSE LET c == Ch(data, file_idx + i + 1) IN
       IF c # "\r" /\ c # "\n"
       THEN for_each_line_bytes(data, file_idx, i + 1, r, [st EXCEPT !.line = @ \o c])
       ELSE for_each_line_bytes(data, file_idx, i + 1, r,
              [line |-> "", line_idx |-> file_idx + i + 1,
               calls |-> Append(st.calls, <<st.line_idx, trim(st.line)>>)])

RECURSIVE for_each_line_chunks(_, _, _, _)
\* the outer loop of ag::file::for_each_line: file::read fills a buffer of
\* buffer_size bytes until it returns 0
for_each_line_chunks(data, buffer_size, file_idx, st) ==
  LET r == Min(buffer_size, Len(data) - file_idx) IN
  IF r <= 0 THEN st
  ELSE for_each_line_chunks(data, buffer_size, file_idx + r,
                            for_each_line_bytes(data, file_idx, 0, r, st))

\* ag::file::for_each_line with MAX_CHUNK_SIZE = max_chunk_size and an action
\* that returns true: the calls of the action
for_each_line_buffered(data, max_chunk_size) ==
  LET file_size == Len(data)
      e == for_each_line_chunks(data, Min(max_chunk_size, file_size), 0,
                                [line |-> "", line_idx |-> 0, calls |-> <<>>])
  IN IF file_size = 0 \/ file_size - 1 > e.line_idx
     THEN Append(e.calls, <<e.line_idx, trim(e.line)>>)
     ELSE e.calls

\* the first i < r with a CR or LF at buffer[i], r when there is none
TerminatorIn(data, offset, r) ==
  Min(r, FirstOf({i \in 0..(r - 1) : Ch(data, offset + i + 1) \in {"\r", "\n"}} \cup {r}))

RECURSIVE read_line_whole_chunks(_, _, _, _)
\* read_line keeping only the bytes of the buffer in which the line ends
read_line_whole_chunks(data, offset, chunk_size, line) ==
  LET r == Min(chunk_size, Len(data) - offset)
      i == IF r <= 0 THEN 0 ELSE TerminatorIn(data, offset, r)
  IN IF r <= 0 THEN line
     ELSE IF i < r THEN SubSeq(data, offset + 1, offset + i)
     ELSE read_line_whole_chunks(data, offset + r, chunk_size,
                                 line \o SubSeq(data, offset + 1, offset + r))

RECURSIVE read_line_chunks(_, _, _, _)
\* the loop of ag::file::read_line: the bytes up to the first CR or LF of a
\* buffer are appended and the loop ends, a buffer without one is appended
\* whole
read_line_chunks(data, offset, chunk_size, line) ==
  LET r == Min(chunk_size, Len(data) - offset)
      i == IF r <= 0 THEN 0 ELSE TerminatorIn(data, offset, r)
  IN IF r <= 0 THEN line
     ELSE IF i < r THEN line \o SubSeq(data, offset + 1, offset + i)
     ELSE read_line_chunks(data, offset + r, chunk_size,
                           line \o SubSeq(data, offset + 1, offset + r))

\* ag::file::read_line with CHUNK_SIZE = chunk_size
read_line_buffered(data, pos, chunk_size) == trim(read_line_chunks(data, pos, chunk_size, ""))

\* for_each_line(f, action, arg) with an action that appends its arguments
\* to arg and returns true
ForEachLineBuffered ==
  /\ fs.exists
  /\ ~reader.called
  /\ \E max_chunk_size \in ChunkSizes :
       reader' = [called |-> TRUE, calls |-> for_each_line_buffered(fs.data, max_chunk_size)]
  /\ UNCHANGED <<fs, clock, f, state, mem_limit, last_load, ctx, match_ret, pc, probe, forwarder_vars>>

\* read_line(f, pos) at the offset of a call of the action
ReadLine ==
  /\ fs.exists
  /\ reader.called
  /\ \E k \in 1..Len(reader.calls), chunk_size \in ChunkSizes :
       probe' = [fn |-> "read_line", args |-> <<reader.calls[k][1], chunk_size>>,
                 called |-> TRUE,
                 ret |-> read_line_buffered(fs.data, reader.calls[k][1], chunk_size)]
  /\ UNCHANGED <<fs, clock, f, state, mem_limit, last_load, ctx, match_ret, pc, reader, forwarder_vars>>

InitOffsets == \E data \in OffsetFiles : Constructed(data, 0)

NextOffsets ==
  \/ ForEachLineBuffered
  \/ ReadLine
  \/ LoadFile

SpecOffsets == InitOffsets /\ [][NextOffsets]_vars

\* the lines the action got with the offset pos
LinesAt(pos) == {reader.calls[k][2] : k \in {j \in 1..Len(reader.calls) : reader.calls[j][1] = pos}}

\* where the buffers end changes neither the calls nor the line read back
BuffersDoNotShow ==
  /\ reader.called => reader.calls = for_each_line(fs.data)
  /\ (probe.fn = "read_line" /\ probe.called) => probe.ret = read_line(fs.data, probe.args[1])

\* every offset of the index reads back as the line that was loaded from it
OffsetsReadBack ==
  state = "loaded" =>
    /\ \A k \in 1..Len(f.pimpl.inserted) :
         /\ read_line(fs.data, f.pimpl.inserted[k][1]) = f.pimpl.inserted[k][2]
         /\ parse(read_line(fs.data, f.pimpl.inserted[k][1])) = parse(f.pimpl.inserted[k][2])
    /\ TableOffsets(f.pimpl) \subseteq {f.pimpl.inserted[k][1] : k \in 1..Len(f.pimpl.inserted)}

\* C24: for every pair (offset, line) that for_each_line passes to its
\* action, read_line at that offset returns the same trimmed line, for lines
\* ended by LF, CR LF or the end of the file and for lines that cross the
\* end of a buffer; so every offset stored in an index table re-parses to a
\* rule equal to the one that produced the entry.
C24_OffsetRoundTrip ==
  /\ (probe.fn = "read_line" /\ probe.called) => LinesAt(probe.args[1]) = {probe.ret}
  /\ BuffersDoNotShow
  /\ OffsetsReadBack

\* a line of three bytes was read back through buffers of two bytes, from a
\* file the filter loaded rules from
C24_Witness ==
  /\ probe.fn = "read_line"
  /\ probe.called
  /\ probe.args[2] = 2
  /\ Len(probe.ret) = 3
  /\ state = "loaded"
  /\ f.pimpl.inserted # <<>>

(***************************************************************************)
(* put_hash_into_tables on its own: insertions of a few hashes and offsets *)
(* into an empty pair of tables, in every order.                           *)
(***************************************************************************)
MaxInsertions == 4

PromotionHashes == {1, 2}
PromotionOffsets == {0, 8, 16}

\* the pair of tables of a new filter::impl
NoTables == [unique |-> EmptyTable, multi |-> EmptyTable]

\* put_hash_into_tables(hash, file_idx, unique_domains_table, domains_table)
PutHash(h, file_idx) ==
  /\ probe.fn = "put_hash_into_tables"
  /\ Len(probe.args) < MaxInsertions
  /\ probe' = [probe EXCEPT !.args = Append(@, <<h, file_idx>>),
                            !.called = TRUE,
                            !.ret = put_hash_into_tables(h, file_idx, @.unique, @.multi)]
  /\ UNCHANGED <<fs, clock, f, state, mem_limit, last_load, ctx, match_ret, pc, reader, forwarder_vars>>

InitPromotion ==
  /\ fs = NoFile
  /\ clock = 1
  /\ f = [params |-> NoParams, pimpl |-> NewImpl]
  /\ state = "constructed"
  /\ mem_limit = 0
  /\ last_load = NoLoad
  /\ ctx = NoContext
  /\ match_ret = TRUE
  /\ pc = "idle"
  /\ reader = NoLines
  /\ probe = [fn |-> "put_hash_into_tables", args |-> <<>>, called |-> FALSE, ret |-> NoTables]
  /\ NoForwarder

NextPromotion == \E h \in PromotionHashes, file_idx \in PromotionOffsets : PutHash(h, file_idx)

SpecPromotion == InitPromotion /\ [][NextPromotion]_vars

RECURSIVE InsertedUnder(_, _)
\* the offsets inserted under the hash h, in insertion order
InsertedUnder(insertions, h) ==
  IF insertions = <<>> THEN <<>>
  ELSE (IF Head(insertions)[1] = h THEN <<Head(insertions)[2]>> ELSE <<>>)
         \o InsertedUnder(Tail(insertions), h)

\* the pair of tables as the two domain tables of an index
AsIndex(tables) == [unique_domains |-> tables.unique, domains |-> tables.multi]

\* C25: when the same hash is inserted k >= 2 times, the domains table holds
\* under that hash exactly the k inserted offsets in insertion order, the
\* one formerly held by unique_domains first, and a lookup of the hash visits
\* all k offsets; no insertion order loses or duplicates an offset.
C25_PromotionKeepsOffsets ==
  probe.fn = "put_hash_into_tables" =>
    \A h \in PromotionHashes :
      LET offsets == InsertedUnder(probe.args, h) IN
      /\ Len(offsets) >= 2 =>
           /\ h \in DOMAIN probe.ret.multi
           /\ probe.ret.multi[h] = offsets
           /\ h \notin DOMAIN probe.ret.unique
      /\ Len(offsets) = 1 =>
           /\ h \in DOMAIN probe.ret.unique
           /\ probe.ret.unique[h] = offsets[1]
      /\ DomainBucket(AsIndex(probe.ret), h) = offsets

\* one hash was inserted three times, the other once, the insertions mixed
C25_Witness ==
  /\ probe.fn = "put_hash_into_tables"
  /\ Len(InsertedUnder(probe.args, 1)) = 3
  /\ Len(InsertedUnder(probe.args, 2)) = 1
  /\ probe.args[2][1] = 2

(***************************************************************************)
(* The entries of the leftovers table: rule lists of patterns without a    *)
(* part of 5 bytes, regular expressions, and patterns made of `*` and `.`  *)
(* with the dnstype or dnsrewrite modifier.                                *)
(***************************************************************************)
LEFTOVER_RULES ==
  <<"ex*.org", "/^(www\\.)?example\\.org$/", "||ex*mple.org^", "*.*$dnstype=A",
    ".*$dnsrewrite=1.2.3.4", "*$dnstype=A">>

LeftoverLists == ListsOf(LEFTOVER_RULES)
LeftoverBudgets == {0, 2000}

InitLeftovers ==
  \E data \in LeftoverLists, budget \in LeftoverBudgets : Constructed(data, budget)

NextLeftovers ==
  \/ LoadFile
  \/ \E data \in LeftoverLists : LoadBlob(data)

SpecLeftovers == InitLeftovers /\ [][NextLeftovers]_vars

\* assert(!shortcuts.empty() || re.has_value()) of load_line
LeftoverAssert(entry) == entry.shortcuts # <<>> \/ entry.regex.has_value

\* C26 (as stated): every entry appended to the leftovers table has a
\* non-empty shortcut list or a compiled regex, for every rule the parser
\* accepts, including SHORTCUTS rules none of whose parts reaches 5 bytes
\* and rules made only of `*` and `.` that the dnstype or dnsrewrite
\* modifier exempts from the too-wide check.
C26_LeftoversInvariant ==
  \A i \in 1..Len(f.pimpl.leftovers) : LeftoverAssert(f.pimpl.leftovers[i])

\* the line at the offset o of the source that was loaded
SourceLineAt(o) ==
  IF f.params.in_memory THEN utils_read_line(f.params.data, o) ELSE read_line(fs.data, o)

\* what does hold: an entry without shortcuts and without a regex comes
\* from a SHORTCUTS rule whose pattern has no byte but `*`
C26_ButWildcardsOnly ==
  \A i \in 1..Len(f.pimpl.leftovers) :
    LeftoverAssert(f.pimpl.leftovers[i]) \/
      /\ parse(SourceLineAt(f.pimpl.leftovers[i].file_idx)).match_method = "SHORTCUTS"
      /\ parse(SourceLineAt(f.pimpl.leftovers[i].file_idx)).matching_parts = <<>>

\* a rule of `*` alone with the dnstype modifier was loaded into leftovers
C26_Witness ==
  /\ state = "loaded"
  /\ \E i \in 1..Len(f.pimpl.leftovers) : ~LeftoverAssert(f.pimpl.leftovers[i])

(***************************************************************************)
(* A query during an update.  filter.cpp has no lock: filter::update       *)
(* releases the index and loads the new one into the same filter line by   *)
(* line, and filter::match reads the tables of the filter as they are.     *)
(* The update is taken step by step here, with queries in between; the     *)
(* moment between pimpl.reset() and make_unique, in which a query reads a  *)
(* null pointer, is left out.                                              *)
(***************************************************************************)
CONCURRENT_RULES == <<"example.org", "||example.org^", "ex*.org">>
ConcurrentLists == ListsOf(CONCURRENT_RULES)
ConcurrentBudgets == {0, 40}
ConcurrentHosts == {"example.org", "other.net"}

\* the calls of load_line for the source of the filter
SourceCallsOf(p, files) ==
  IF p.in_memory THEN utils_for_each_line(p.data) ELSE for_each_line(FileOf(p, files).data)

\* the load_line_arg of the load that filter::update is in
LoadLineArg ==
  [filter |-> f.pimpl, approx_mem |-> last_load.mem, mem_limit |-> last_load.mem_limit,
   result |-> last_load.result, cont |-> last_load.cont]

\* filter::update up to the loading pass of load: the old index is
\* released, the budget restored, the new impl made, the source opened and
\* its rules counted
BeginUpdate ==
  /\ state = "loaded"
  /\ state' = "updating"
  /\ mem_limit' = (mem_limit + f.pimpl.approx_mem) % SIZE_T_RANGE
  /\ f' = [f EXCEPT !.pimpl =
             IF ~f.params.in_memory /\ ~FileOf(f.params, fs).exists THEN NewImpl
             ELSE [NewImpl EXCEPT !.leftovers_capacity =
                     leftover_rules(SourceCallsOf(f.params, fs))]]
  /\ last_load' = [caller |-> "update", mem_limit |-> mem_limit',
                   result |-> IF ~f.params.in_memory /\ ~FileOf(f.params, fs).exists
                              THEN "LR_ERROR" ELSE "LR_OK",
                   mem |-> 0,
                   cont |-> f.params.in_memory \/ FileOf(f.params, fs).exists,
                   line |-> 1, released |-> f.pimpl]
  /\ UNCHANGED <<fs, clock, ctx, match_ret, pc, reader, probe, forwarder_vars>>

\* one call of load_line by the for_each_line of the loading pass
LoadNextLine ==
  /\ state = "updating"
  /\ last_load.cont
  /\ last_load.line <= Len(SourceCallsOf(f.params, fs))
  /\ LET call == SourceCallsOf(f.params, fs)[last_load.line]
         a == load_line(LoadLineArg, call[1], call[2])
     IN /\ f' = [f EXCEPT !.pimpl = a.filter]
        /\ last_load' = [last_load EXCEPT !.mem = a.approx_mem, !.result = a.result,
                                          !.cont = a.cont, !.line = @ + 1]
  /\ UNCHANGED <<fs, clock, state, mem_limit, ctx, match_ret, pc, reader, probe, forwarder_vars>>

\* the end of load and of filter::update
FinishUpdate ==
  /\ state = "updating"
  /\ ~last_load.cont \/ last_load.line > Len(SourceCallsOf(f.params, fs))
  /\ LET r == IF last_load.result = "LR_ERROR"
              THEN [result |-> "LR_ERROR", mem |-> 0, params |-> f.params, pimpl |-> f.pimpl]
              ELSE loaded(LoadLineArg, f.params, fs)
     IN /\ Loaded(r, last_load.mem_limit, "update")
        /\ mem_limit' = (mem_limit - r.mem) % SIZE_T_RANGE
  /\ state' = "loaded"
  /\ UNCHANGED <<fs, clock, ctx, match_ret, pc, reader, probe, forwarder_vars>>

\* a query of another thread: create_match_context, then filter::match on
\* the filter as it is
ConcurrentMatch(domain, rr_type) ==
  /\ state \in {"loaded", "updating"}
  /\ pc = "idle"
  /\ MatchContext(create_match_context(domain, rr_type),
                  before_badfilter_search(f, fs, create_match_context(domain, rr_type)))
  /\ pc' = "matched"
  /\ UNCHANGED <<fs, clock, f, state, mem_limit, last_load, reader, probe, forwarder_vars>>

InitConcurrent ==
  \E data \in ConcurrentLists, budget \in ConcurrentBudgets : Constructed(data, budget)

NextConcurrent ==
  \/ LoadFile
  \/ BeginUpdate
  \/ LoadNextLine
  \/ FinishUpdate
  \/ \E domain \in ConcurrentHosts : ConcurrentMatch(domain, "A")
  \/ DropContext
  \* the file is left alone while an update reads it
  \/ state # "updating" /\ TouchFile
  \/ state # "updating" /\ RemoveFile

SpecConcurrent == InitConcurrent /\ [][NextConcurrent]_vars

\* the five tables of an index
Tables(p) == <<p.unique_domains, p.domains, p.shortcuts, p.leftovers, p.badfilter>>

\* the index the update in progress ends with
NewIndex ==
  load([params |-> f.params, pimpl |-> NewImpl],
       [data |-> f.params.data, in_memory |-> f.params.in_memory],
       last_load.mem_limit, fs).pimpl

\* the step is a call of filter::match
IsMatch == pc = "idle" /\ pc' = "matched"

\* filter::match leaves the tables alone
MatchKeepsTables == IsMatch => Tables(f'.pimpl) = Tables(f.pimpl)

\* a filter::match during an update reads the tables of the released index
\* or those of the index the update ends with
MatchSeesWholeIndex ==
  (IsMatch /\ state = "updating") =>
    Tables(f.pimpl) \in {Tables(last_load.released), Tables(NewIndex)}

\* C27 (as stated): filter::match changes none of the five tables, and a
\* match that runs concurrently with filter::update of the same filter
\* observes either the complete old index or the complete newly loaded
\* index, never an empty or partly loaded one.
C27_ReadOnlyIndex == [][MatchKeepsTables /\ MatchSeesWholeIndex]_vars

\* what does hold: filter::match changes none of the five tables
C27_MatchKeepsTables == [][MatchKeepsTables]_vars

\* an update taken step by step ends with the index of one load
C27_StepwiseUpdate ==
  (state = "loaded" /\ last_load.caller = "update" /\ fs.exists) => f.pimpl = NewIndex

\* a query ran in the middle of an update and found no rule for a host the
\* old and the new index have a rule for
C27_Witness ==
  /\ state = "updating"
  /\ pc = "matched"
  /\ ctx.host = "example.org"
  /\ ctx.matched_rules = <<>>
  /\ match_ret
  /\ Tables(last_load.released) # Tables(NewImpl)

(***************************************************************************)
(* Lines the parser refuses, between lines it accepts: every rule list is  *)
(* one refused or accepted line alone, before, after or between two rules. *)
(***************************************************************************)
REJECTED_LINES ==
  <<"example.org$important,important",  \* a modifier given twice
    "example.org$dnstype=A,dnstype=MX",
    "example.org$unknown",              \* an unknown modifier
    "example.org$dnstype=",             \* an empty argument
    "example.org$dnsrewrite=",
    "example.org$important=1",          \* an argument where none is taken
    "example.org$badfilter=x",
    "example.org$dnstype=A|~A",         \* a type enabled and excluded
    "example.org$dnstype=~A|A",
    "example.org$dnstype",              \* a blocking rule without types
    "ex@mple.org",                      \* no domain and no IP pattern
    "/(example/">>                      \* an invalid regex

\* lines that differ from a refused one by little and are rules
ACCEPTED_LINES ==
  <<"example.org$important", "example.org$dnstype=A", "@@example.org$dnstype",
    "example.org$dnstype=A|~MX", "/(example)/">>

RejectedLines == {REJECTED_LINES[k] : k \in 1..Len(REJECTED_LINES)}
AcceptedLines == {ACCEPTED_LINES[k] : k \in 1..Len(ACCEPTED_LINES)}

\* the rule lists with the line alone, first, last and in the middle
ListsAround(line) ==
  {line,
   JoinLines(<<line, "||example.net^">>),
   JoinLines(<<"example.com", line>>),
   JoinLines(<<"example.com", line, "||example.net^">>)}

RejectLists == UNION {ListsAround(line) : line \in RejectedLines \cup AcceptedLines}

InitRejects == \E data \in RejectLists : Constructed(data, 0)

NextRejects ==
  \/ LoadFile
  \/ \E blob \in RejectLists : LoadBlob(blob)

SpecRejects == InitRejects /\ [][NextRejects]_vars

\* the calls of load_line for the source the filter was loaded from
LoadedCalls == SourceCallsOf(f.params, fs)

\* the call of load_line left the line out of the index
Dropped(call) ==
  /\ parse(call[2]) = NoRule
  /\ \A k \in 1..Len(f.pimpl.inserted) : f.pimpl.inserted[k] # call
  /\ call[1] \notin TableOffsets(f.pimpl)

\* the call of load_line put the line into the index
Kept(call) ==
  /\ \E k \in 1..Len(f.pimpl.inserted) : f.pimpl.inserted[k] = call
  /\ call[1] \in TableOffsets(f.pimpl)

\* C28: rule parsing returns no rule, and nothing is inserted into the
\* index, for a modifier given twice, an unknown modifier, a modifier that
\* requires an argument given with an empty argument, an argument given to
\* important or badfilter, a DNS type both enabled and excluded, a
\* non-exception dnstype rule without types, a pattern that is neither a
\* valid domain pattern nor a valid IP pattern, and an invalid regex; no such
\* line aborts the load of the following lines.
C28_RejectedLinesDropped ==
  state = "loaded" =>
    /\ last_load.result = "LR_OK"
    /\ \A k \in 1..Len(LoadedCalls) :
         IF LoadedCalls[k][2] \in RejectedLines THEN Dropped(LoadedCalls[k])
         ELSE Kept(LoadedCalls[k])

\* a refused line was met between two rules and both are in the index
C28_Witness ==
  /\ state = "loaded"
  /\ Len(LoadedCalls) = 3
  /\ LoadedCalls[2][2] = "example.org$dnstype"
  /\ Len(f.pimpl.inserted) = 2

(***************************************************************************)
(* The rule a load stopped at.                                             *)
(***************************************************************************)
\* the offsets of the rules whose memory the load counted
CountedOffsets(p) == {p.inserted[k][1] : k \in 1..Len(p.inserted)}

\* the offset of the rule at which CHECK_MEM stopped the load
StoppedOffsets(p) == {p.stopped[k][1] : k \in 1..Len(p.stopped)}

\* the kind of the rule of a line, by the branch of load_line it takes
KindOf(line) ==
  LET rule == parse(line) IN
  IF rule = NoRule THEN "none"
  ELSE IF IsBadfilterRule(rule) THEN "badfilter"
  ELSE IF rule.match_method \in {"EXACT", "SUBDOMAINS"} THEN "domain"
  ELSE IF rule.match_method \in {"SHORTCUTS", "SHORTCUTS_AND_REGEX"}
          /\ first_shortcut(rule.matching_parts) # "" THEN "shortcut"
  ELSE "leftover"

\* the line at which the load stopped
StoppedLine == SourceLineAt(f.pimpl.stopped[1][1])

\* C29 (as stated): when load returns LR_MEM_LIMIT_REACHED, the rule whose
\* insertion exceeded the limit is in no table, whatever its kind: the index
\* holds exactly the rules whose memory is counted in the returned
\* approximate usage, and that usage is at most mem_limit.
C29_StoppedRuleInNoTable ==
  (state = "loaded" /\ last_load.result = "LR_MEM_LIMIT_REACHED") =>
    /\ StoppedOffsets(f.pimpl) \cap TableOffsets(f.pimpl) = {}
    /\ TableOffsets(f.pimpl) = CountedOffsets(f.pimpl)
    /\ last_load.mem = f.pimpl.approx_mem
    /\ last_load.mem <= last_load.mem_limit

\* what does hold: the usage is at most mem_limit, every counted rule but a
\* badfilter rule (which a later one of the same key replaces) is in the
\* index, and the rule the load stopped at is in no table when it is a
\* domain or a badfilter rule and in its table when it is a shortcut or a
\* leftover rule
C29_StoppedRuleByKind ==
  (state = "loaded" /\ last_load.result = "LR_MEM_LIMIT_REACHED") =>
    /\ last_load.mem = f.pimpl.approx_mem
    /\ last_load.mem <= last_load.mem_limit
    /\ \A k \in 1..Len(f.pimpl.inserted) :
         KindOf(f.pimpl.inserted[k][2]) # "badfilter" =>
           f.pimpl.inserted[k][1] \in TableOffsets(f.pimpl)
    /\ TableOffsets(f.pimpl) \subseteq CountedOffsets(f.pimpl) \cup StoppedOffsets(f.pimpl)
    /\ KindOf(StoppedLine) \in {"domain", "badfilter"} =>
         StoppedOffsets(f.pimpl) \cap TableOffsets(f.pimpl) \subseteq CountedOffsets(f.pimpl)
    /\ KindOf(StoppedLine) \in {"shortcut", "leftover"} =>
         StoppedOffsets(f.pimpl) \subseteq TableOffsets(f.pimpl)

\* a load stopped at a leftover rule and the leftovers table holds it
C29_Witness ==
  /\ state = "loaded"
  /\ last_load.result = "LR_MEM_LIMIT_REACHED"
  /\ KindOf(StoppedLine) = "leftover"
  /\ \E i \in 1..Len(f.pimpl.leftovers) : f.pimpl.leftovers[i].file_idx = f.pimpl.stopped[1][1]

(***************************************************************************)
(* An update that cannot open the file.                                    *)
(***************************************************************************)
\* the last call of load was made by filter::update and returned LR_ERROR
UpdateFailed == last_load.caller = "update" /\ last_load.result = "LR_ERROR"

\* the step is a filter::update whose load returns LR_ERROR and that
\* changes the filter or the budget
FailingUpdate ==
  /\ state = "loaded"
  /\ last_load'.caller = "update"
  /\ last_load'.result = "LR_ERROR"
  /\ <<f, mem_limit, last_load>>' # <<f, mem_limit, last_load>>

\* the old index is released, the params are kept and the budget grows by
\* what the old index was accounted for
ReleasedNotReloaded ==
  FailingUpdate =>
    /\ f'.pimpl = NewImpl
    /\ f'.params = f.params
    /\ mem_limit' = (mem_limit + f.pimpl.approx_mem) % SIZE_T_RANGE
    /\ last_load'.mem = 0

\* after the failed update the index is empty, and a query finds no rule
\* and is not told that the filter is outdated
EmptyAfterFailure ==
  (state = "loaded" /\ UpdateFailed) =>
    /\ Tables(f.pimpl) = Tables(NewImpl)
    /\ f.pimpl.approx_mem = 0
    /\ pc = "matched" => (match_ret /\ ctx.matched_rules = <<>>)

====
